---- MODULE Spec2Model ----
(***************************************************************************)
(* Model of the Transkriptor worker (python/worker.py and the              *)
(* transkriptor package): the job store, the transcription driver with     *)
(* its crash points, the post-processor and the editor parser.             *)
(*                                                                         *)
(* Units.  Times are integers counting ticks of 0.05 s (so 0.25 s = 5,     *)
(* 1.5 s = 30, 240 s = 4800); every time the model uses is a multiple of   *)
(* 0.05 s, on which round(x, 3) is the identity.  Confidences are integer  *)
(* hundredths (0..100), on which round(x, 4) is the identity; NULL stands  *)
(* for None.  A text is the sequence of its whitespace-separated tokens.   *)
(* A nullable column holding a list or a message is << >> for SQL NULL and *)
(* <<v>> for the value v.                                                  *)
(***************************************************************************)
EXTENDS Integers, Sequences, FiniteSets, TLC

\* ------------------------------------------------------------------ bounds
MaxChunks == 2        \* longest source, in planned chunks
MaxAttempts == 2      \* no run is started once a chunk was attempted so often
TailTicks == 2000     \* length of the last chunk of a source (100 s)
MaxRetries == 2       \* largest max_retries transcribe_chunk_openai is called with
MaxSegments == 3      \* most segments merge_and_label is called with directly
MaxLines == 3         \* most lines parse_editor_text is called with directly
MaxQuarters == 14     \* longest recording create_chunks is called with directly, in 0.25 s
MaxFineSegments == 2  \* most segments the globalizing loop is run on directly
MaxRawSegments == 7   \* most segments the local pipeline returns for one chunk
MaxClock == 3         \* last half-second the wall clock of the job table reaches
MaxTextSegments == 2  \* most text segments the verbose call returns to the merge
MaxDiarized == 3      \* most diarized segments the diarize call returns to the merge

\* ------------------------------------------------------- program constants
NULL == -1
CHUNK_DURATION == 4800                 \* chunk_duration_sec = 240.0
OVERLAP == 30                          \* overlap_sec = 1.5
MIN_STEP == 20                         \* max(1.0, ...)
OVERLAP_TOLERANCE == 5                 \* previous.end_sec + 0.25
SHORT_BACKCHANNEL_MAX_WORDS == 2
TECHNICAL_META_MAX_WORDS == 10
TECHNICAL_META_STRONG_MAX_WORDS == 20
INTERRUPTION_MAX_WORDS == 3
INTERRUPTION_MAX_GAP_SEC == 160        \* 8.0 s
SPEAKER_RUN_MERGE_MAX_GAP_SEC == 200   \* 10.0 s
START_BONUS_WINDOW == 2400             \* 120.0 s
SEGMENT_START_STEP == 60               \* 3.0 s
SEGMENT_DURATION == 20                 \* 1.0 s
COVERAGE_GATE == 85                    \* coverage >= 0.85
MIN_SPEAKERS == 2                      \* speaker_count >= 2

Max(a, b) == IF a >= b THEN a ELSE b
Min(a, b) == IF a <= b THEN a ELSE b

RECURSIVE Concat(_)
Concat(ss) == IF ss = << >> THEN << >> ELSE Head(ss) \o Concat(Tail(ss))

\* ------------------------------------------------------------------- text
\* What the regular expressions and str methods of merge.py do to each
\* token of the model's vocabulary:
\*   norm   _normalize: lower-case, punctuation to space, split into words
\*   bare   re.sub(r"[^\w]", "", token.lower())         (_strip_fillers)
\*   ls/rs  the token after str.strip(" ,.-") removed leading / trailing
\*          characters ("" when nothing is left)
\*   q      "?" occurs in the token
Lexicon ==
  { [tok |-> "Kan",       norm |-> <<"kan">>,      bare |-> "kan",      ls |-> "Kan",       rs |-> "Kan",       q |-> FALSE],
    [tok |-> "du",        norm |-> <<"du">>,       bare |-> "du",       ls |-> "du",        rs |-> "du",        q |-> FALSE],
    [tok |-> "fortælle?", norm |-> <<"fortælle">>, bare |-> "fortælle", ls |-> "fortælle?", rs |-> "fortælle?", q |-> TRUE],
    [tok |-> "Ja,",       norm |-> <<"ja">>,       bare |-> "ja",       ls |-> "Ja,",       rs |-> "Ja",        q |-> FALSE],
    [tok |-> "Ja",        norm |-> <<"ja">>,       bare |-> "ja",       ls |-> "Ja",        rs |-> "Ja",        q |-> FALSE],
    [tok |-> "ja",        norm |-> <<"ja">>,       bare |-> "ja",       ls |-> "ja",        rs |-> "ja",        q |-> FALSE],
    [tok |-> "jeg",       norm |-> <<"jeg">>,      bare |-> "jeg",      ls |-> "jeg",       rs |-> "jeg",       q |-> FALSE],
    [tok |-> "arbejder.", norm |-> <<"arbejder">>, bare |-> "arbejder", ls |-> "arbejder.", rs |-> "arbejder",  q |-> FALSE],
    [tok |-> "arbejder",  norm |-> <<"arbejder">>, bare |-> "arbejder", ls |-> "arbejder",  rs |-> "arbejder",  q |-> FALSE],
    [tok |-> "hjemme",    norm |-> <<"hjemme">>,   bare |-> "hjemme",   ls |-> "hjemme",    rs |-> "hjemme",    q |-> FALSE],
    [tok |-> "hjemme.",   norm |-> <<"hjemme">>,   bare |-> "hjemme",   ls |-> "hjemme.",   rs |-> "hjemme",    q |-> FALSE],
    [tok |-> "Hvorfor?",  norm |-> <<"hvorfor">>,  bare |-> "hvorfor",  ls |-> "Hvorfor?",  rs |-> "Hvorfor?",  q |-> TRUE],
    [tok |-> "øh",        norm |-> <<"øh">>,       bare |-> "øh",       ls |-> "øh",        rs |-> "øh",        q |-> FALSE],
    [tok |-> "Øhm,",      norm |-> <<"øhm">>,      bare |-> "øhm",      ls |-> "Øhm,",      rs |-> "Øhm",       q |-> FALSE],
    [tok |-> "skærmen",   norm |-> <<"skærmen">>,  bare |-> "skærmen",  ls |-> "skærmen",   rs |-> "skærmen",   q |-> FALSE],
    [tok |-> "Okay",      norm |-> <<"okay">>,     bare |-> "okay",     ls |-> "Okay",      rs |-> "Okay",      q |-> FALSE],
    [tok |-> "-",         norm |-> << >>,          bare |-> "",         ls |-> "",          rs |-> "",          q |-> FALSE] }

Info(tok) == CHOOSE e \in Lexicon : e.tok = tok

\* Character-level containment between normalized words of the vocabulary:
\* <<k, w>> when k is a proper substring of w (here always a prefix).
ProperSubstrings == { <<"skærm", "skærmen">> }

WordContains(w, k) == w = k \/ <<k, w>> \in ProperSubstrings

BACKCHANNELS ==
  { <<"ja">>, <<"jo">>, <<"nej">>, <<"ok">>, <<"okay">>, <<"nå">>, <<"nåh">>,
    <<"mhm">>, <<"mm">>, <<"mmm">>, <<"klart">>, <<"fedt">>, <<"præcis">>,
    <<"super">>, <<"tak">>, <<"det", "gør", "jeg">>,
    <<"det", "vil", "jeg", "gøre">>, <<"ja", "okay">>, <<"ja", "ja">>,
    <<"nej", "nej">> }

FILLER_TOKENS == { "øh", "øhm", "øhh", "eh", "hmm" }

TECHNICAL_META_KEYWORDS ==
  { <<"kan", "du", "høre">>, <<"hører", "mig">>, <<"høre", "mig">>,
    <<"lyden">>, <<"mikrofon">>, <<"kamera">>, <<"dele", "skærm">>,
    <<"del", "skærm">>, <<"skærm">>, <<"link">>, <<"chat">>, <<"chatten">>,
    <<"nettet">>, <<"internet">>, <<"forbindelse">>, <<"hakker">>,
    <<"langsom">>, <<"opkald">>, <<"teams">>, <<"zoom">>,
    <<"kan", "ikke", "åbne">>, <<"kan", "ikke", "se">>, <<"driller">> }

TECHNICAL_META_STRONG_KEYWORDS ==
  { <<"kan", "du", "prøve", "at", "gentage">>, <<"kan", "du", "gentage">>,
    <<"kan", "du", "se", "min", "skærm">>, <<"kan", "du", "se", "den", "nu">>,
    <<"er", "det", "mig", "igen">>, <<"løber", "tør", "for", "strøm">>,
    <<"deler", "skærm">> }

\* _normalize(text), as the list of words of the normalized string
RECURSIVE _normalize(_)
_normalize(text) ==
  IF text = << >> THEN << >> ELSE Info(Head(text)).norm \o _normalize(Tail(text))

\* _word_count(normalized)
_word_count(normalized) == Len(normalized)

\* str.startswith on normalized strings: a.startswith(p)
StartsWith(a, p) ==
  \/ p = << >>
  \/ /\ Len(p) <= Len(a)
     /\ \A k \in 1..(Len(p) - 1) : a[k] = p[k]
     /\ \/ a[Len(p)] = p[Len(p)]
        \/ <<p[Len(p)], a[Len(p)]>> \in ProperSubstrings

\* keyword in normalized   (substring test on the normalized string)
KeywordIn(kw, normalized) ==
  \E s \in 0..(Len(normalized) - Len(kw)) :
     \A k \in 1..Len(kw) :
        IF Len(kw) = 1 THEN WordContains(normalized[s + k], kw[k])
        ELSE normalized[s + k] = kw[k]

\* str.strip(" ,.-") on the joined tokens: leading side
RECURSIVE LStrip(_)
LStrip(text) ==
  IF text = << >> THEN << >>
  ELSE IF Info(Head(text)).ls = "" THEN LStrip(Tail(text))
  ELSE <<Info(Head(text)).ls>> \o Tail(text)

\* str.strip(" ,.-") on the joined tokens: trailing side
RECURSIVE RStrip(_)
RStrip(text) ==
  IF text = << >> THEN << >>
  ELSE LET n == Len(text) IN
       IF Info(text[n]).rs = "" THEN RStrip(SubSeq(text, 1, n - 1))
       ELSE SubSeq(text, 1, n - 1) \o <<Info(text[n]).rs>>

\* _strip_fillers(text)
_strip_fillers(text) ==
  LET cleaned == SelectSeq(text, LAMBDA t : Info(t).bare \notin FILLER_TOKENS)
  IN RStrip(LStrip(cleaned))

\* _is_backchannel(text)
_is_backchannel(text) ==
  LET normalized == _normalize(text) IN
  IF normalized = << >> THEN TRUE
  ELSE _word_count(normalized) <= SHORT_BACKCHANNEL_MAX_WORDS
       /\ normalized \in BACKCHANNELS

\* _is_technical_meta(text)
_is_technical_meta(text) ==
  LET normalized == _normalize(text)
      word_count == _word_count(normalized)
  IN IF normalized = << >> THEN TRUE
     ELSE \/ /\ \E kw \in TECHNICAL_META_KEYWORDS : KeywordIn(kw, normalized)
             /\ word_count <= TECHNICAL_META_MAX_WORDS
          \/ /\ \E kw \in TECHNICAL_META_STRONG_KEYWORDS : KeywordIn(kw, normalized)
             /\ word_count <= TECHNICAL_META_STRONG_MAX_WORDS

\* "?" in segment.text
HasQuestion(text) == \E k \in 1..Len(text) : Info(text[k]).q

\* ------------------------------------------------------------ post-processor
\* Segment(start_sec, end_sec, speaker, text, confidence)
Segment(start, end, speaker, text, confidence) ==
  [start_sec |-> start, end_sec |-> end, speaker |-> speaker, text |-> text,
   confidence |-> confidence]

\* Python's  a or b  on an optional float (None and 0.0 are falsy)
PyOr(a, b) == IF a = NULL \/ a = 0 THEN b ELSE a

\* key=lambda seg: (seg.start_sec, seg.end_sec), compared with <=
KeyLE(a, b) ==
  a.start_sec < b.start_sec \/ (a.start_sec = b.start_sec /\ a.end_sec <= b.end_sec)

RECURSIVE InsertByKey(_, _)
InsertByKey(x, s) ==
  IF s = << >> THEN <<x>>
  ELSE IF KeyLE(Head(s), x) THEN <<Head(s)>> \o InsertByKey(x, Tail(s))
  ELSE <<x>> \o s

\* sorted(segments, key=(start_sec, end_sec)): a stable sort
RECURSIVE SortSegments(_)
SortSegments(s) ==
  IF s = << >> THEN << >>
  ELSE InsertByKey(s[Len(s)], SortSegments(SubSeq(s, 1, Len(s) - 1)))

ReplaceLast(s, x) == SubSeq(s, 1, Len(s) - 1) \o <<x>>

\* one iteration of the loop of dedupe_segments
DedupeStep(merged, segment) ==
  IF segment.text = << >> THEN merged
  ELSE IF merged = << >> THEN <<segment>>
  ELSE
    LET previous == merged[Len(merged)]
        prev_norm == _normalize(previous.text)
        curr_norm == _normalize(segment.text)
        same_text == prev_norm = curr_norm
        overlapping == segment.start_sec <= previous.end_sec + OVERLAP_TOLERANCE
        same_speaker == segment.speaker = previous.speaker
    IN IF same_text /\ overlapping
       THEN ReplaceLast(merged,
              [previous EXCEPT
                 !.end_sec = Max(previous.end_sec, segment.end_sec),
                 !.confidence = IF segment.confidence # NULL
                                THEN Max(PyOr(previous.confidence, 0), segment.confidence)
                                ELSE previous.confidence])
       ELSE IF overlapping /\ same_speaker /\ prev_norm # << >> /\ curr_norm # << >>
                 /\ StartsWith(curr_norm, prev_norm)
       THEN ReplaceLast(merged,
              [previous EXCEPT
                 !.text = segment.text,
                 !.end_sec = Max(previous.end_sec, segment.end_sec),
                 !.confidence = PyOr(segment.confidence, previous.confidence)])
       ELSE IF overlapping /\ same_speaker /\ prev_norm # << >> /\ curr_norm # << >>
                 /\ StartsWith(prev_norm, curr_norm)
       THEN merged
       ELSE Append(merged, segment)

RECURSIVE DedupeLoop(_, _)
DedupeLoop(ordered, merged) ==
  IF ordered = << >> THEN merged
  ELSE DedupeLoop(Tail(ordered), DedupeStep(merged, Head(ordered)))

\* dedupe_segments(segments)
dedupe_segments(segments) == DedupeLoop(SortSegments(segments), << >>)

\* first loop of filter_style_noise: strip fillers, drop noise
RECURSIVE NoiseLoop(_)
NoiseLoop(ordered) ==
  IF ordered = << >> THEN << >>
  ELSE LET segment == Head(ordered)
           cleaned_text == _strip_fillers(segment.text)
       IN IF cleaned_text = << >> \/ _is_backchannel(cleaned_text)
             \/ _is_technical_meta(cleaned_text)
          THEN NoiseLoop(Tail(ordered))
          ELSE <<[segment EXCEPT !.text = cleaned_text]>> \o NoiseLoop(Tail(ordered))

RemoveAt(s, i) == SubSeq(s, 1, i - 1) \o SubSeq(s, i + 1, Len(s))

\* while i < len(compacted) - 1: drop interruption backchannels
\* (i is the 1-based position of "current")
RECURSIVE CompactLoop(_, _)
CompactLoop(compacted, i) ==
  IF i >= Len(compacted) THEN compacted
  ELSE LET previous == compacted[i - 1]
           current == compacted[i]
           following == compacted[i + 1]
           current_words == _word_count(_normalize(current.text))
       IN IF /\ current_words <= INTERRUPTION_MAX_WORDS
             /\ _is_backchannel(current.text)
             /\ previous.speaker = following.speaker
             /\ previous.speaker # current.speaker
             /\ current.start_sec - previous.end_sec <= INTERRUPTION_MAX_GAP_SEC
             /\ following.start_sec - current.end_sec <= INTERRUPTION_MAX_GAP_SEC
          THEN CompactLoop(RemoveAt(compacted, i), i)
          ELSE CompactLoop(compacted, i + 1)

\* one iteration of the merged_runs loop of filter_style_noise
RunStep(merged_runs, segment) ==
  IF merged_runs = << >> THEN <<segment>>
  ELSE LET previous == merged_runs[Len(merged_runs)] IN
       IF /\ previous.speaker = segment.speaker
          /\ segment.start_sec - previous.end_sec <= SPEAKER_RUN_MERGE_MAX_GAP_SEC
       THEN ReplaceLast(merged_runs,
              [previous EXCEPT
                 !.text = previous.text \o segment.text,
                 !.end_sec = Max(previous.end_sec, segment.end_sec),
                 !.confidence = IF segment.confidence # NULL
                                THEN Max(PyOr(previous.confidence, 0), segment.confidence)
                                ELSE previous.confidence])
       ELSE Append(merged_runs, segment)

RECURSIVE RunLoop(_, _)
RunLoop(compacted, merged_runs) ==
  IF compacted = << >> THEN merged_runs
  ELSE RunLoop(Tail(compacted), RunStep(merged_runs, Head(compacted)))

\* filter_style_noise(segments)
filter_style_noise(segments) ==
  LET filtered == NoiseLoop(SortSegments(segments)) IN
  IF Len(filtered) < 3 THEN filtered
  ELSE RunLoop(CompactLoop(filtered, 2), << >>)

\* Python 3 round(n / d) for n >= 0, d > 0: ties go to the even integer
RoundHalfEven(n, d) ==
  LET q == n \div d
      r == n % d
  IN IF 2 * r < d THEN q
     ELSE IF 2 * r > d THEN q + 1
     ELSE IF q % 2 = 0 THEN q ELSE q + 1

\* faulty variant of _expected_interviewer_slots: the scaled share is not
\* capped at unique_speakers - 1
SlotsWithoutCap(unique_speakers, interviewer_count, participant_count) ==
  IF unique_speakers <= 1 THEN 1
  ELSE LET ic == Max(1, interviewer_count)
           pc0 == Max(1, participant_count)
       IN Max(1, RoundHalfEven(unique_speakers * ic, Max(1, ic + pc0)))

\* _expected_interviewer_slots(unique_speakers, interviewer_count, participant_count)
_expected_interviewer_slots(unique_speakers, interviewer_count, participant_count) ==
  IF unique_speakers <= 1 THEN 1
  ELSE LET ic == Max(1, interviewer_count)
           pc0 == Max(1, participant_count)
           total_expected == Max(1, ic + pc0)
           scaled == RoundHalfEven(unique_speakers * ic, total_expected)
           slots == Min(Max(1, scaled), Max(1, unique_speakers - 1))
       IN Max(1, slots)

\* segment.speaker or "speaker_0"
SpeakerOrDefault(speaker) == IF speaker = "" THEN "speaker_0" ELSE speaker

\* speaker_order: raw speakers in order of first appearance
RECURSIVE SpeakerOrder(_, _)
SpeakerOrder(ordered, seen) ==
  IF ordered = << >> THEN seen
  ELSE LET sp == SpeakerOrDefault(Head(ordered).speaker) IN
       SpeakerOrder(Tail(ordered),
                    IF \E k \in 1..Len(seen) : seen[k] = sp THEN seen ELSE Append(seen, sp))

RECURSIVE SumSeq(_)
SumSeq(s) == IF s = << >> THEN 0 ELSE Head(s) + SumSeq(Tail(s))

\* _SpeakerStats of one raw speaker over the ordered segments
SpeakerStats(ordered, sp) ==
  LET own == SelectSeq(ordered, LAMBDA g : SpeakerOrDefault(g.speaker) = sp) IN
  [first_start |-> own[1].start_sec,
   utterance_count |-> Len(own),
   question_count |-> Len(SelectSeq(own, LAMBDA g : HasQuestion(g.text))),
   total_words |-> SumSeq([k \in 1..Len(own) |-> _word_count(_normalize(own[k].text))])]

\* score = 3*question_density + start_bonus + 2*brevity_bonus as the exact
\* fraction n/d:  brevity_bonus = 1/max(1, total_words/utterances)
\*                              = utterances / max(utterances, total_words)
Score(stats) ==
  LET u == Max(1, stats.utterance_count)
      m == Max(u, stats.total_words)
      sb == Max(0, START_BONUS_WINDOW - Min(stats.first_start, START_BONUS_WINDOW))
  IN [n |-> 3 * stats.question_count * START_BONUS_WINDOW * m
            + sb * u * m
            + 2 * u * u * START_BONUS_WINDOW,
      d |-> START_BONUS_WINDOW * u * m]

\* a < b on fractions, without overflowing 32-bit products
FracLess(a, b) ==
  LET qa == a.n \div a.d
      qb == b.n \div b.d
  IN qa < qb \/ (qa = qb /\ (a.n % a.d) * b.d < (b.n % b.d) * a.d)

\* key=lambda item: (-item[1], item[2]):  x sorts strictly before e
ScoredBefore(x, e) ==
  FracLess(e.score, x.score)
  \/ (~FracLess(x.score, e.score) /\ ~FracLess(e.score, x.score) /\ x.first_start < e.first_start)

RECURSIVE InsertScored(_, _)
InsertScored(x, s) ==
  IF s = << >> THEN <<x>>
  ELSE IF ScoredBefore(x, Head(s)) THEN <<x>> \o s
  ELSE <<Head(s)>> \o InsertScored(x, Tail(s))

\* faulty variant of the sort: speakers are left in order of first appearance
KeepOrder(s) == s

\* scored.sort(key=...): a stable sort
RECURSIVE SortScored(_)
SortScored(s) ==
  IF s = << >> THEN << >>
  ELSE InsertScored(s[Len(s)], SortScored(SubSeq(s, 1, Len(s) - 1)))

\* _infer_interviewer_speakers(ordered, interviewer_count, participant_count)
_infer_interviewer_speakers(ordered, interviewer_count, participant_count) ==
  IF ordered = << >> THEN {"speaker_0"}
  ELSE
    LET speaker_order == SpeakerOrder(ordered, << >>)
        slots == _expected_interviewer_slots(Len(speaker_order), interviewer_count,
                                             participant_count)
        scored == [k \in 1..Len(speaker_order) |->
                     LET st == SpeakerStats(ordered, speaker_order[k]) IN
                     [speaker |-> speaker_order[k], score |-> Score(st),
                      first_start |-> st.first_start]]
        ranked == SortScored(scored)
        picked == { ranked[k].speaker : k \in 1..Min(slots, Len(ranked)) }
    IN IF Len(speaker_order) <= 1 THEN {speaker_order[1]}
       ELSE IF picked # {} THEN picked
       ELSE {speaker_order[1]}

\* faulty variant of map_to_interviewer_participant: a speaker who is not an
\* interviewer keeps the raw label
MapKeepingRawSpeaker(segments, interviewer_count, participant_count) ==
  LET ordered == SortSegments(segments)
      interviewer_speakers ==
        _infer_interviewer_speakers(ordered, interviewer_count, participant_count)
  IN [k \in 1..Len(ordered) |->
        [startSec |-> ordered[k].start_sec,
         endSec |-> ordered[k].end_sec,
         speaker |-> IF SpeakerOrDefault(ordered[k].speaker) \in interviewer_speakers
                     THEN "I" ELSE SpeakerOrDefault(ordered[k].speaker),
         text |-> ordered[k].text,
         confidence |-> ordered[k].confidence]]

\* map_to_interviewer_participant(segments, interviewer_count, participant_count)
map_to_interviewer_participant(segments, interviewer_count, participant_count) ==
  LET ordered == SortSegments(segments)
      interviewer_speakers ==
        _infer_interviewer_speakers(ordered, interviewer_count, participant_count)
  IN [k \in 1..Len(ordered) |->
        [startSec |-> ordered[k].start_sec,
         endSec |-> ordered[k].end_sec,
         speaker |-> IF SpeakerOrDefault(ordered[k].speaker) \in interviewer_speakers
                     THEN "I" ELSE "D",
         text |-> ordered[k].text,
         confidence |-> ordered[k].confidence]]

\* merge_and_label(segments, interviewer_count, participant_count)
merge_and_label(segments, interviewer_count, participant_count) ==
  map_to_interviewer_participant(filter_style_noise(dedupe_segments(segments)),
                                 interviewer_count, participant_count)

\* --------------------------------------------------------------- editor parser
\* A text is the list of its lines (str.splitlines), a line the list of its
\* characters.
IsSpace(c) == c = " "

RECURSIVE LStripSpace(_)
LStripSpace(line) ==
  IF line # << >> /\ IsSpace(Head(line)) THEN LStripSpace(Tail(line)) ELSE line

RECURSIVE RStripSpace(_)
RStripSpace(line) ==
  IF line # << >> /\ IsSpace(line[Len(line)])
  THEN RStripSpace(SubSeq(line, 1, Len(line) - 1)) ELSE line

StripSpace(line) == RStripSpace(LStripSpace(line))

Upper(c) == CASE c = "i" -> "I" [] c = "d" -> "D" [] OTHER -> c

\* faulty variant of the loop body: the test for a blank line is left out
ParseLineWithoutBlankTest(line) ==
  LET afterWs == LStripSpace(line)
      afterLetter == IF afterWs = << >> THEN << >> ELSE LStripSpace(Tail(afterWs))
      matches == /\ afterWs # << >>
                 /\ Head(afterWs) \in {"I", "i", "D", "d"}
                 /\ afterLetter # << >>
                 /\ Head(afterLetter) = ":"
      body == IF matches THEN StripSpace(Tail(afterLetter)) ELSE << >>
  IN IF ~matches THEN [err |-> "mangler taler-prefix", speaker |-> "", body |-> << >>]
     ELSE IF body = << >> THEN [err |-> "er tom efter taler-prefix", speaker |-> "", body |-> << >>]
     ELSE [err |-> "", speaker |-> Upper(Head(afterWs)), body |-> body]

\* One line against SPEAKER_PREFIX = ^\s*([IiDd])\s*:\s*(.*)$ and the three
\* checks of the loop body: [err |-> "" or the error kind, speaker, body]
ParseLine(line) ==
  LET afterWs == LStripSpace(line)
      afterLetter == IF afterWs = << >> THEN << >> ELSE LStripSpace(Tail(afterWs))
      matches == /\ afterWs # << >>
                 /\ Head(afterWs) \in {"I", "i", "D", "d"}
                 /\ afterLetter # << >>
                 /\ Head(afterLetter) = ":"
      body == IF matches THEN StripSpace(Tail(afterLetter)) ELSE << >>
  IN IF StripSpace(line) = << >> THEN [err |-> "er tom", speaker |-> "", body |-> << >>]
     ELSE IF ~matches THEN [err |-> "mangler taler-prefix", speaker |-> "", body |-> << >>]
     ELSE IF body = << >> THEN [err |-> "er tom efter taler-prefix", speaker |-> "", body |-> << >>]
     ELSE [err |-> "", speaker |-> Upper(Head(afterWs)), body |-> body]

\* index (1-based line number) of the first offending line, 0 if none
RECURSIVE FirstBadLine(_, _)
FirstBadLine(lines, n) ==
  IF n > Len(lines) THEN 0
  ELSE IF ParseLine(lines[n]).err # "" THEN n
  ELSE FirstBadLine(lines, n + 1)

\* faulty variant of row.get("confidence"): the confidence is never found
NoConfidence(row) == NULL

\* row.get("confidence")
GetConfidence(row) == IF "confidence" \in DOMAIN row THEN row.confidence ELSE NULL

\* parse_editor_text(text, fallback_transcript):
\* [ok |-> TRUE, value |-> utterances] or [ok |-> FALSE, error |-> message]
parse_editor_text(text, fallback_transcript) ==
  LET bad == FirstBadLine(text, 1) IN
  IF bad # 0
  THEN [ok |-> FALSE, error |-> <<"Linje", bad, ParseLine(text[bad]).err>>, value |-> << >>]
  ELSE IF text = << >>
  THEN [ok |-> FALSE, error |-> <<"Ingen gyldige ytringer fundet">>, value |-> << >>]
  ELSE [ok |-> TRUE, error |-> << >>,
        value |-> [n \in 1..Len(text) |->
          LET idx == n - 1
              start_sec == idx * SEGMENT_START_STEP
              confidence == IF idx < Len(fallback_transcript)
                            THEN GetConfidence(fallback_transcript[n]) ELSE NULL
              payload == [startSec |-> start_sec,
                          endSec |-> start_sec + SEGMENT_DURATION,
                          speaker |-> ParseLine(text[n]).speaker,
                          text |-> ParseLine(text[n]).body]
          IN IF confidence # NULL
             THEN [startSec |-> payload.startSec, endSec |-> payload.endSec,
                   speaker |-> payload.speaker, text |-> payload.text,
                   confidence |-> confidence]
             ELSE payload]]

\* ---------------------------------------------------------------- chunk planner
\* ChunkPlan(idx, start_sec, end_sec); path and sha256 are functions of idx
\* and are left out.
RECURSIVE PlanLoop(_, _, _, _, _)
PlanLoop(duration, chunk_duration_sec, step, idx, start) ==
  IF ~(start < duration) THEN << >>
  ELSE <<[idx |-> idx, start_sec |-> start,
          end_sec |-> Min(duration, start + chunk_duration_sec)]>>
       \o PlanLoop(duration, chunk_duration_sec, step, idx + 1, start + step)

\* create_chunks(source, chunk_dir, chunk_duration_sec, overlap_sec), given
\* the duration the probe returns
create_chunks(duration, chunk_duration_sec, overlap_sec) ==
  PlanLoop(duration, chunk_duration_sec, Max(MIN_STEP, chunk_duration_sec - overlap_sec), 0, 0)

\* ---------------------------------------------------------------------- store
NoRow == << >>      \* SQL NULL in transcript_json / error_message
NoEngine == ""      \* SQL NULL in chunks.engine

\* the jobs row before create_job: the column defaults of init_db
NoJob ==
  [exists |-> FALSE, status |-> "", duration_sec |-> 0, chunks_total |-> 0,
   chunks_done |-> 0, transcript_json |-> NoRow, error_message |-> NoRow,
   interviewer_count |-> 1, participant_count |-> 1]

\* create_job(conn, job_id, ..., interviewer_count, participant_count)
create_job(interviewer_count, participant_count) ==
  [NoJob EXCEPT !.exists = TRUE, !.status = "queued",
                !.interviewer_count = Max(1, interviewer_count),
                !.participant_count = Max(1, participant_count)]

\* update_job_status(conn, job_id, status, chunks_done, chunks_total, error_message)
\* (NULL / NoRow for an argument left at None)
update_job_status(j, status, chunks_done, chunks_total, error_message) ==
  IF ~j.exists THEN j
  ELSE [j EXCEPT
          !.status = status,
          !.chunks_done = IF chunks_done # NULL THEN chunks_done ELSE @,
          !.chunks_total = IF chunks_total # NULL THEN chunks_total ELSE @,
          !.error_message = IF error_message # NoRow THEN error_message ELSE @]

\* update_job_metadata(conn, job_id, duration_sec, chunks_total)
update_job_metadata(j, duration_sec, chunks_total) ==
  IF ~j.exists THEN j
  ELSE [j EXCEPT !.duration_sec = duration_sec, !.chunks_total = chunks_total]

\* faulty variant of upsert_chunk: an empty transcript is stored as NULL
\* (json.dumps only `if transcript`)
UpsertChunkEmptyAsNull(ch, idx, start_sec, end_sec, status, engine, attempt_count, transcript, confidence) ==
  LET row == [idx |-> idx, start_sec |-> start_sec, end_sec |-> end_sec,
              status |-> status, engine |-> engine,
              attempt_count |-> attempt_count,
              transcript_json |-> IF transcript = << << >> >> THEN NoRow ELSE transcript,
              confidence |-> confidence]
  IN [i \in (DOMAIN ch) \cup {idx} |-> IF i = idx THEN row ELSE ch[i]]

\* upsert_chunk(conn, job_id, idx, start_sec, end_sec, ..., status, engine,
\*              attempt_count, transcript, confidence): insert or replace by key
upsert_chunk(ch, idx, start_sec, end_sec, status, engine, attempt_count, transcript, confidence) ==
  LET row == [idx |-> idx, start_sec |-> start_sec, end_sec |-> end_sec,
              status |-> status, engine |-> engine,
              attempt_count |-> attempt_count,
              transcript_json |-> transcript, confidence |-> confidence]
  IN [i \in (DOMAIN ch) \cup {idx} |-> IF i = idx THEN row ELSE ch[i]]

\* list_chunks(conn, job_id): SELECT ... ORDER BY idx ASC
RECURSIVE RowsAscending(_, _)
RowsAscending(ch, todo) ==
  IF todo = {} THEN << >>
  ELSE LET lo == CHOOSE i \in todo : \A o \in todo : i <= o
       IN <<ch[lo]>> \o RowsAscending(ch, todo \ {lo})

list_chunks(ch) == RowsAscending(ch, DOMAIN ch)

\* faulty variant of set_final_transcript: error_message is left as it was
SetFinalKeepMessage(j, transcript, status) ==
  IF ~j.exists THEN j
  ELSE [j EXCEPT !.transcript_json = <<transcript>>, !.status = status]

\* set_final_transcript(conn, job_id, transcript, status)
set_final_transcript(j, transcript, status) ==
  IF ~j.exists THEN j
  ELSE [j EXCEPT !.transcript_json = <<transcript>>, !.status = status,
                 !.error_message = NoRow]

\* get_transcript(conn, job_id)
get_transcript(j) ==
  IF ~j.exists \/ j.transcript_json = NoRow THEN << >> ELSE j.transcript_json[1]

\* faulty variant of the loop of toggle_swap_roles: only "I" is flipped
SwapOnlyInterviewer(transcript) ==
  [k \in 1..Len(transcript) |->
     IF transcript[k].speaker = "I" THEN [transcript[k] EXCEPT !.speaker = "D"]
     ELSE transcript[k]]

\* the loop of toggle_swap_roles
SwapSpeakers(transcript) ==
  [k \in 1..Len(transcript) |->
     IF transcript[k].speaker = "I" THEN [transcript[k] EXCEPT !.speaker = "D"]
     ELSE IF transcript[k].speaker = "D" THEN [transcript[k] EXCEPT !.speaker = "I"]
     ELSE transcript[k]]

\* toggle_swap_roles(conn, job_id): the job row it leaves
toggle_swap_roles(j) ==
  set_final_transcript(j, SwapSpeakers(get_transcript(j)), "ready")

\* -------------------------------------------------------------------- engines
\* The recording.  A source of n chunks lasts (n-1) steps plus TailTicks; its
\* kind fixes what the engines hear in each chunk, so an engine returns the
\* same segments whenever it is asked for the same chunk.
SourceKinds == {"dialog", "noise"}
Sources == [n : 1..MaxChunks, kind : SourceKinds]

SourceDuration(source) == (source.n - 1) * (CHUNK_DURATION - OVERLAP) + TailTicks

\* transcribe_chunk_openai's segments for chunk idx, in chunk-local time.
\* dialog: a question and an answer in every chunk, and the utterance that
\* straddles a seam heard at the end of one chunk and at the start of the next.
\* noise: a backchannel and a filler in even chunks, nothing in odd ones.
OpenaiSegments(source, idx) ==
  IF source.kind = "dialog"
  THEN (IF idx > 0
        THEN <<Segment(2, 25, "speaker_1", <<"jeg", "arbejder", "hjemme.">>, 40)>>
        ELSE << >>)
       \o <<Segment(40, 100, "speaker_0",
                    IF idx % 2 = 0 THEN <<"Kan", "du", "fortælle?">> ELSE <<"Hvorfor?">>, 90),
            Segment(104, 180, "speaker_1", <<"Ja,", "jeg", "arbejder.">>, 80)>>
       \o (IF idx < source.n - 1
           THEN <<Segment(4772, 4795, "speaker_1", <<"jeg", "arbejder", "hjemme.">>, 70)>>
           ELSE << >>)
  ELSE IF idx % 2 = 0
       THEN <<Segment(10, 20, "speaker_0", <<"Ja,">>, 50),
              Segment(30, 44, "speaker_1", <<"øh">>, NULL)>>
       ELSE << >>

\* avg_conf of transcribe_chunk_openai: mean of the non-null confidences
\* (the segments above have integral means)
AvgConfidence(segments) ==
  LET confidences == SelectSeq([k \in 1..Len(segments) |-> segments[k].confidence],
                               LAMBDA c : c # NULL)
  IN IF confidences = << >> THEN NULL ELSE SumSeq(confidences) \div Len(confidences)

\* The segments transcribe_chunk_fallback builds from the local pipeline's
\* output before its quality gate: the diarizer names its own speakers and
\* knows no confidences; on a noise source it cannot tell who speaks.
FallbackRawSegments(source, idx) ==
  LET heard == OpenaiSegments(source, idx) IN
  [k \in 1..Len(heard) |->
     Segment(heard[k].start_sec, heard[k].end_sec,
             IF source.kind = "noise" /\ k > 1 THEN "unknown"
             ELSE IF heard[k].speaker = "speaker_0" THEN "SPEAKER_00" ELSE "SPEAKER_01",
             heard[k].text, NULL)]

\* faulty variant of the quality gate: the number of speakers is not looked at
GateOnCoverageOnly(segments) ==
  IF segments = << >>
  THEN [passed |-> FALSE, coverage |-> 0, error |-> <<"Fallback gav ingen segmenter.">>]
  ELSE LET with_speaker == SelectSeq(segments, LAMBDA g : g.speaker \notin {"", "unknown", "None"})
           coverage == (100 * Len(with_speaker)) \div Len(segments)
           passed == coverage >= COVERAGE_GATE
       IN [passed |-> passed, coverage |-> coverage,
           error |-> IF passed THEN << >> ELSE <<"Lav diarization-sikkerhed i fallback">>]

\* the quality gate of transcribe_chunk_fallback:
\* [passed, coverage (hundredths), error (the LowSpeakerConfidenceError text)]
FallbackQuality(segments) ==
  IF segments = << >>
  THEN [passed |-> FALSE, coverage |-> 0, error |-> <<"Fallback gav ingen segmenter.">>]
  ELSE LET with_speaker == SelectSeq(segments, LAMBDA g : g.speaker \notin {"", "unknown", "None"})
           unique_speakers == { with_speaker[k].speaker : k \in 1..Len(with_speaker) }
           coverage == (100 * Len(with_speaker)) \div Len(segments)
           passed == coverage >= COVERAGE_GATE /\ Cardinality(unique_speakers) >= MIN_SPEAKERS
       IN [passed |-> passed, coverage |-> coverage,
           error |-> IF passed THEN << >> ELSE <<"Lav diarization-sikkerhed i fallback">>]

RemoteErrors == {"timed out", "OPENAI_API_KEY mangler"}
FallbackErrors == {"HUGGINGFACE_TOKEN mangler", "whisperx fejlede"}

\* ---------------------------------------------------------------------- driver
\* round(x, 3) for a time x >= 0 counted in units of which `milli` make a
\* millisecond (on the driver's ticks of 0.05 s, whole numbers of
\* milliseconds, it is the identity: milli = 1)
Round3(milli, x) == milli * RoundHalfEven(x, milli)

\* faulty variant of the loop: the utterances stay in chunk-local time
GlobalizeLocal(milli, chunk_start, segments) ==
  [k \in 1..Len(segments) |->
     [startSec |-> Round3(milli, segments[k].start_sec),
      endSec |-> Round3(milli, segments[k].end_sec),
      speaker |-> segments[k].speaker,
      text |-> segments[k].text,
      confidence |-> segments[k].confidence]]

\* the loop building "globalized" in transcribe_job, on times counted in
\* units of which `milli` make a millisecond
GlobalizeAt(milli, chunk_start, segments) ==
  [k \in 1..Len(segments) |->
     [startSec |-> Round3(milli, chunk_start + segments[k].start_sec),
      endSec |-> Round3(milli, chunk_start + segments[k].end_sec),
      speaker |-> segments[k].speaker,
      text |-> segments[k].text,
      confidence |-> segments[k].confidence]]

\* the loop building "globalized" in transcribe_job, on the driver's ticks
Globalize(chunk_start, segments) == GlobalizeAt(1, chunk_start, segments)

\* _coerce_segments(raw_segments)
RECURSIVE _coerce_segments(_)
_coerce_segments(raw_segments) ==
  IF raw_segments = << >> THEN << >>
  ELSE LET raw == Head(raw_segments)
           start == raw.startSec
           end == IF raw.endSec = 0 THEN start ELSE raw.endSec
       IN (IF raw.text = << >> THEN << >>
           ELSE <<Segment(start, Max(start, end), SpeakerOrDefault(raw.speaker),
                          raw.text, GetConfidence(raw))>>)
          \o _coerce_segments(Tail(raw_segments))

\* the "collected" list of transcribe_job: every stored chunk transcript, idx ASC
RECURSIVE Collect(_)
Collect(rows) ==
  IF rows = << >> THEN << >>
  ELSE (IF Head(rows).transcript_json = NoRow THEN << >>
        ELSE _coerce_segments(Head(rows).transcript_json[1]))
       \o Collect(Tail(rows))

\* progress_payload(...)["percent"] in hundredths for
\* percent = base + (done / max(total, 1)) * span
Percent(base, done, total, span) ==
  Max(0, Min(10000, 100 * base + RoundHalfEven(100 * span * done, Max(total, 1))))

\* emit("progress" | "paused", progress_payload(...))
ProgressEvent(type, status, stage, percent, chunks_done, chunks_total) ==
  [type |-> type, status |-> status, stage |-> stage, percent |-> percent,
   chunksDone |-> chunks_done, chunksTotal |-> chunks_total, message |-> << >>]

\* emit("error", {"jobId": ..., "message": ...})
ErrorEvent(message) ==
  [type |-> "error", status |-> "", stage |-> "", percent |-> 0,
   chunksDone |-> 0, chunksTotal |-> 0, message |-> message]

\* emit("result", ...)
ResultEvent ==
  [type |-> "result", status |-> "", stage |-> "", percent |-> 0,
   chunksDone |-> 0, chunksTotal |-> 0, message |-> << >>]

\* sum(1 for row in chunk_rows if row["status"] == "done")
CountDone(rows) == Len(SelectSeq(rows, LAMBDA r : r.status = "done"))

\* faulty variant of NextPending: only rows still queued are taken up
RECURSIVE NextPendingOnlyQueued(_, _)
NextPendingOnlyQueued(rows, i) ==
  IF i > Len(rows) THEN 0
  ELSE IF rows[i].status # "queued" THEN NextPendingOnlyQueued(rows, i + 1)
  ELSE i

\* faulty variant of NextPending: rows that are done are not skipped
NextPendingAnyRow(rows, i) == IF i > Len(rows) THEN 0 ELSE i

\* position in chunk_rows of the next row the loop does not skip (0: none)
RECURSIVE NextPending(_, _)
NextPending(rows, i) ==
  IF i > Len(rows) THEN 0
  ELSE IF rows[i].status = "done" THEN NextPending(rows, i + 1)
  ELSE i

\* edited texts handed to update-transcript
EditorTexts ==
  { << <<"I", ":", " ", "x">>, <<" ", "d", " ", ":", "x", " ">> >>,
    << <<"D", ":", "x">>, <<"x">> >> }

\* --interviewers / --participants
CountArgs == { <<1, 1>>, <<2, 1>> }

VARIABLES
  source,         \* the recording given to run-job
  source_exists,  \* the source file is still on disk
  job,            \* the jobs row of the job
  chunks,         \* the chunks rows of the job, by idx
  wav,            \* idx of the rendered chunk files on disk
  checkpoints,    \* checkpoints/chunk_<idx>.json, by idx
  tmp_checkpoints, \* checkpoints/chunk_<idx>.json.tmp, by idx
  result_file,    \* checkpoints/result.json: NoRow or <<transcript>>
  pc,             \* where the worker process is ("idle": no process)
  local,          \* local variables of the running command
  events,         \* events the current (or last) command has emitted
  last,           \* how the last command ended
  remote,         \* one call of transcribe_chunk_openai, step by step
  labeler,        \* one call of merge_and_label on segments of any shape
  editor,         \* one call of parse_editor_text on a text of any shape
  planner,        \* one call of create_chunks on a recording of any length
  globalizer,     \* the globalizing loop of transcribe_job on segments timed to 0.1 ms
  fallback,       \* one call of transcribe_chunk_fallback on any diarization
  registry,       \* the jobs table and the job directories of several jobs
  assigner        \* one call of _merge_text_with_speakers on segments of any timing

vars == <<source, source_exists, job, chunks, wav, checkpoints, tmp_checkpoints, result_file,
          pc, local, events, last, remote, labeler, editor, planner, globalizer, fallback,
          registry, assigner>>

store == <<job, chunks>>
files == <<wav, checkpoints, tmp_checkpoints, result_file>>

IdleLocal ==
  [resume |-> FALSE, interviewer_count |-> 1, participant_count |-> 1,
   duration |-> 0, planned |-> << >>, chunk_rows |-> << >>, i |-> 0,
   total_chunks |-> 0, done_chunks |-> 0, openai_exc |-> "", conf_exc |-> << >>,
   engine |-> "", globalized |-> << >>, labeled |-> << >>]

NoFiles == [i \in {} |-> << >>]

\* no call of transcribe_chunk_openai is under way
RemoteOff ==
  [pc |-> "off", max_retries |-> 0, attempt |-> 0, format |-> 0, backoff |-> 0,
   calls |-> << >>, diarized_response |-> << >>, last_error |-> << >>,
   segments |-> << >>, avg_conf |-> NULL, raised |-> << >>]

\* no call of merge_and_label is under way
LabelerOff ==
  [pc |-> "off", segments |-> << >>, interviewer_count |-> 1, participant_count |-> 1,
   offset |-> 0, filtered |-> << >>, labeled |-> << >>]

\* no call of parse_editor_text is under way
EditorOff ==
  [pc |-> "off", text |-> << >>, fallback_transcript |-> << >>,
   parsed |-> [ok |-> FALSE, error |-> << >>, value |-> << >>]]

\* no call of create_chunks is under way
PlannerOff ==
  [pc |-> "off", duration |-> 0, chunk_duration |-> 0, overlap |-> 0, plan |-> << >>]

\* the globalizing loop has not run
GlobalizerOff == [pc |-> "off", chunk_start |-> 0, segments |-> << >>, globalized |-> << >>]

\* no call of transcribe_chunk_fallback is under way
FallbackOff ==
  [pc |-> "off", hf_token |-> FALSE, transcribed |-> FALSE, raw_segments |-> << >>,
   segments |-> << >>, coverage |-> NULL, raised |-> ""]

\* no call of _merge_text_with_speakers is under way
AssignerOff ==
  [pc |-> "off", whisper_segments |-> << >>, diarized_segments |-> << >>, merged |-> << >>]

JobIds == {"a", "b"}

\* an empty jobs table, no job directory, no process
RegistryOff ==
  [rows |-> [id \in JobIds |-> [exists |-> FALSE, status |-> "", updated_at |-> 0,
                                has_chunks |-> FALSE, has_transcript |-> FALSE]],
   dirs |-> {}, clock |-> 0, running |-> "", resume |-> FALSE, pc |-> "idle",
   asked |-> FALSE, found |-> << >>]

Init ==
  /\ source \in Sources
  /\ source_exists = TRUE
  /\ job = NoJob
  /\ chunks = NoFiles
  /\ wav = {}
  /\ checkpoints = NoFiles
  /\ tmp_checkpoints = NoFiles
  /\ result_file = NoRow
  /\ pc = "idle"
  /\ local = IdleLocal
  /\ events = << >>
  /\ last = [op |-> "none", how |-> "none", code |-> NULL]
  /\ remote = RemoteOff
  /\ labeler = LabelerOff
  /\ editor = EditorOff
  /\ planner = PlannerOff
  /\ globalizer = GlobalizerOff
  /\ fallback = FallbackOff
  /\ registry = RegistryOff
  /\ assigner = AssignerOff

\* the process ends: return <code>, an uncaught exception, or a kill
Finish(op, how, code) ==
  /\ pc' = "idle"
  /\ local' = IdleLocal
  /\ last' = [op |-> op, how |-> how, code |-> code]

AttemptsLeft == \A i \in DOMAIN chunks : chunks[i].attempt_count < MaxAttempts

\* current row of the loop "for row in chunk_rows"
Row == local.chunk_rows[local.i]

\* command_run_job without --resume, up to the call of transcribe_job
RunJob(interviewers, participants) ==
  /\ pc = "idle"
  /\ AttemptsLeft
  /\ UNCHANGED <<assigner, registry, fallback, globalizer, planner, editor, labeler, remote, source, source_exists, chunks, files>>
  /\ IF ~source_exists
     THEN /\ events' = <<ErrorEvent(<<"Kildedata findes ikke">>)>>
          /\ Finish("run-job", "return", 1)
          /\ UNCHANGED job
     ELSE IF job.exists
     THEN \* create_job: INSERT hits the primary key, sqlite3.IntegrityError
          /\ events' = << >>
          /\ Finish("run-job", "exception", 1)
          /\ UNCHANGED job
     ELSE /\ job' = create_job(interviewers, participants)
          /\ events' = << >>
          /\ pc' = "start"
          /\ local' = [IdleLocal EXCEPT !.resume = FALSE,
                                        !.interviewer_count = Max(1, interviewers),
                                        !.participant_count = Max(1, participants)]
          /\ last' = [op |-> "run-job", how |-> "running", code |-> NULL]

\* command_run_job with --resume, up to the call of transcribe_job
ResumeJob ==
  /\ pc = "idle"
  /\ AttemptsLeft
  /\ UNCHANGED <<assigner, registry, fallback, globalizer, planner, editor, labeler, remote, source, source_exists, store, files>>
  /\ IF ~job.exists
     THEN /\ events' = <<ErrorEvent(<<"Job findes ikke til resume">>)>>
          /\ Finish("resume", "return", 1)
     ELSE /\ events' = << >>
          /\ pc' = "start"
          /\ local' = [IdleLocal EXCEPT !.resume = TRUE,
                                        !.interviewer_count = job.interviewer_count,
                                        !.participant_count = job.participant_count]
          /\ last' = [op |-> "resume", how |-> "running", code |-> NULL]

\* transcribe_job, lines 143-164: source check, housekeeping, "preprocessing"
StartRun ==
  /\ pc = "start"
  /\ UNCHANGED <<assigner, registry, fallback, globalizer, planner, editor, labeler, remote, source, source_exists, chunks, files>>
  /\ IF ~source_exists
     THEN /\ events' = Append(events, ErrorEvent(<<"Kildedata findes ikke">>))
          /\ job' = update_job_status(job, "failed", NULL, NULL, <<"Source fil mangler">>)
          /\ Finish(last.op, "return", 1)
     ELSE \* remove_ready_job_dirs leaves this job's directory: it is not ready
          /\ job' = update_job_status(job, "preprocessing", NULL, NULL, NoRow)
          /\ events' = Append(events,
                         ProgressEvent("progress", "preprocessing", "preprocess",
                                       Percent(3, 0, 1, 0), 0, 0))
          /\ pc' = "preprocess"
          /\ UNCHANGED <<local, last>>

\* preprocess_if_needed up to its first upsert: reuse the rows, or plan
Preprocess ==
  /\ pc = "preprocess"
  /\ UNCHANGED <<assigner, registry, fallback, globalizer, planner, editor, labeler, remote, source, source_exists, chunks, checkpoints, tmp_checkpoints, result_file, events, last>>
  /\ LET rows == list_chunks(chunks) IN
     IF rows # << >>
     THEN LET stored == job.duration_sec
              duration == IF stored <= 0 THEN SourceDuration(source) ELSE stored
          IN /\ job' = IF stored <= 0
                       THEN update_job_metadata(job, duration, Len(rows))
                       ELSE job
             /\ local' = [local EXCEPT !.duration = duration, !.chunk_rows = rows]
             /\ pc' = "mark"
             /\ UNCHANGED wav
     ELSE LET duration == SourceDuration(source)
              planned == create_chunks(duration, CHUNK_DURATION, OVERLAP)
          IN /\ wav' = wav \cup { planned[k].idx : k \in 1..Len(planned) }
             /\ job' = update_job_metadata(job, duration, Len(planned))
             /\ local' = [local EXCEPT !.duration = duration, !.planned = planned, !.i = 1]
             /\ pc' = "persist"

\* preprocess_if_needed, one iteration of "for chunk in planned"
PersistChunk ==
  /\ pc = "persist"
  /\ UNCHANGED <<assigner, registry, fallback, globalizer, planner, editor, labeler, remote, source, source_exists, job, files, events, last>>
  /\ LET chunk == local.planned[local.i]
         stored == upsert_chunk(chunks, chunk.idx, chunk.start_sec, chunk.end_sec,
                                "queued", NoEngine, 0, NoRow, NULL)
     IN /\ chunks' = stored
        /\ IF local.i < Len(local.planned)
           THEN /\ local' = [local EXCEPT !.i = local.i + 1]
                /\ pc' = "persist"
           ELSE /\ local' = [local EXCEPT !.chunk_rows = list_chunks(stored)]
                /\ pc' = "mark"

\* preprocess_if_needed when the decoder fails: ffprobe exits non-zero or
\* reports no duration (probe_duration_seconds raises), or ffmpeg fails for a
\* chunk of the plan after `rendered` chunk files were written (render_chunk
\* raises CalledProcessError).  Nothing catches it: the process ends with a
\* traceback and exit code 1.
DecoderFails(rendered) ==
  /\ pc = "preprocess"
  /\ list_chunks(chunks) = << >> \/ job.duration_sec <= 0
  /\ UNCHANGED <<assigner, registry, fallback, globalizer, planner, editor, labeler, remote, source, source_exists, store, checkpoints, tmp_checkpoints, result_file, events>>
  /\ LET planned == create_chunks(SourceDuration(source), CHUNK_DURATION, OVERLAP) IN
     /\ rendered < Len(planned)
     /\ list_chunks(chunks) # << >> => rendered = 0
     /\ wav' = wav \cup { planned[k].idx : k \in 1..rendered }
  /\ Finish(last.op, "exception", 1)

\* faulty variants of InitialDoneChunks: every row counted; the count not taken
InitialDoneAllRows(chunk_rows) == Len(chunk_rows)

InitialDoneZero(chunk_rows) == 0

\* done_chunks as transcribe_job counts it at line 168
InitialDoneChunks(chunk_rows) == CountDone(chunk_rows)

\* transcribe_job, lines 167-179: count, status "transcribing_openai"
MarkTranscribing ==
  /\ pc = "mark"
  /\ UNCHANGED <<assigner, registry, fallback, globalizer, planner, editor, labeler, remote, source, source_exists, chunks, files, events, last>>
  /\ LET total_chunks == Len(local.chunk_rows)
         done_chunks == InitialDoneChunks(local.chunk_rows)
     IN /\ job' = update_job_status(job, "transcribing_openai", done_chunks, total_chunks, NoRow)
        /\ local' = [local EXCEPT !.total_chunks = total_chunks,
                                  !.done_chunks = done_chunks, !.i = 1]
        /\ pc' = "loop"

\* faulty variant of BeginChunk: the attempt is not counted
BeginChunkUncounted ==
  /\ pc = "loop"
  /\ NextPending(local.chunk_rows, local.i) # 0
  /\ UNCHANGED <<assigner, registry, fallback, globalizer, planner, editor, labeler, remote, source, source_exists, job, checkpoints, tmp_checkpoints, result_file, events>>
  /\ LET i == NextPending(local.chunk_rows, local.i)
         row == local.chunk_rows[i]
     IN IF row.idx \notin wav /\ ~source_exists
        THEN \* render_chunk fails: CalledProcessError leaves transcribe_job
             /\ Finish(last.op, "exception", 1)
             /\ UNCHANGED <<chunks, wav>>
        ELSE /\ wav' = wav \cup {row.idx}
             /\ chunks' = upsert_chunk(chunks, row.idx, row.start_sec, row.end_sec,
                                       "transcribing_openai", "openai",
                                       row.attempt_count, NoRow, NULL)
             /\ local' = [local EXCEPT !.i = i]
             /\ pc' = "remote"
             /\ UNCHANGED last

\* transcribe_job, lines 181-203: skip done rows, make sure the chunk file
\* is there, count the attempt
BeginChunk ==
  /\ pc = "loop"
  /\ NextPending(local.chunk_rows, local.i) # 0
  /\ UNCHANGED <<assigner, registry, fallback, globalizer, planner, editor, labeler, remote, source, source_exists, job, checkpoints, tmp_checkpoints, result_file, events>>
  /\ LET i == NextPending(local.chunk_rows, local.i)
         row == local.chunk_rows[i]
     IN IF row.idx \notin wav /\ ~source_exists
        THEN \* render_chunk fails: CalledProcessError leaves transcribe_job
             /\ Finish(last.op, "exception", 1)
             /\ UNCHANGED <<chunks, wav>>
        ELSE /\ wav' = wav \cup {row.idx}
             /\ chunks' = upsert_chunk(chunks, row.idx, row.start_sec, row.end_sec,
                                       "transcribing_openai", "openai",
                                       row.attempt_count + 1, NoRow, NULL)
             /\ local' = [local EXCEPT !.i = i]
             /\ pc' = "remote"
             /\ UNCHANGED last

\* ensure_chunk_file when the chunk file is gone and render_chunk fails (the
\* source is missing, or the decoder fails): the exception leaves
\* transcribe_job before the chunk's upsert
LazyRenderFails ==
  /\ pc = "loop"
  /\ NextPending(local.chunk_rows, local.i) # 0
  /\ local.chunk_rows[NextPending(local.chunk_rows, local.i)].idx \notin wav
  /\ UNCHANGED <<assigner, registry, fallback, globalizer, planner, editor, labeler, remote, source, source_exists, store, files, events>>
  /\ Finish(last.op, "exception", 1)

\* faulty variant of StoreDone: the transcript is stored but the row is not marked done
StoreNotDone(engine, segments, avg_conf) ==
  LET globalized == Globalize(Row.start_sec, segments) IN
  /\ chunks' = upsert_chunk(chunks, Row.idx, Row.start_sec, Row.end_sec,
                            "transcribing_openai", engine, Row.attempt_count + 1,
                            <<globalized>>, avg_conf)
  /\ local' = [local EXCEPT !.engine = engine, !.globalized = globalized]
  /\ pc' = "checkpoint"

\* the upsert of lines 290-315 for a chunk an engine has transcribed
StoreDone(engine, segments, avg_conf) ==
  LET globalized == Globalize(Row.start_sec, segments) IN
  /\ chunks' = upsert_chunk(chunks, Row.idx, Row.start_sec, Row.end_sec, "done",
                            engine, Row.attempt_count + 1, <<globalized>>, avg_conf)
  /\ local' = [local EXCEPT !.engine = engine, !.globalized = globalized]
  /\ pc' = "checkpoint"

\* transcribe_chunk_openai returns; the chunk is upserted as done
RemoteOk ==
  /\ pc = "remote"
  /\ UNCHANGED <<assigner, registry, fallback, globalizer, planner, editor, labeler, remote, source, source_exists, job, files, events, last>>
  /\ LET segments == OpenaiSegments(source, Row.idx) IN
     StoreDone("openai", segments, AvgConfidence(segments))

\* percent of the "fallback" progress event, line 219
FallbackPercent(done_chunks, total_chunks) == Percent(10, done_chunks, total_chunks, 70)

\* transcribe_chunk_openai raises; lines 212-225
RemoteFail(openai_exc) ==
  /\ pc = "remote"
  /\ UNCHANGED <<assigner, registry, fallback, globalizer, planner, editor, labeler, remote, source, source_exists, store, files, last>>
  /\ events' = Append(events,
                 ProgressEvent("progress", "transcribing_fallback", "transcribe",
                               FallbackPercent(local.done_chunks, local.total_chunks),
                               local.done_chunks, local.total_chunks))
  /\ local' = [local EXCEPT !.openai_exc = openai_exc]
  /\ pc' = "fallback"

\* transcribe_chunk_fallback returns; the chunk is upserted as done
FallbackOk ==
  /\ pc = "fallback"
  /\ UNCHANGED <<assigner, registry, fallback, globalizer, planner, editor, labeler, remote, source, source_exists, job, files, events, last>>
  /\ LET segments == FallbackRawSegments(source, Row.idx)
         metrics == FallbackQuality(segments)
     IN /\ metrics.passed
        /\ StoreDone("fallback", segments, metrics.coverage)

\* LowSpeakerConfidenceError: lines 231-243, the chunk row
FallbackLowConfidence ==
  /\ pc = "fallback"
  /\ UNCHANGED <<assigner, registry, fallback, globalizer, planner, editor, labeler, remote, source, source_exists, job, files, events, last>>
  /\ LET metrics == FallbackQuality(FallbackRawSegments(source, Row.idx)) IN
     /\ ~metrics.passed
     /\ chunks' = upsert_chunk(chunks, Row.idx, Row.start_sec, Row.end_sec,
                               "paused_retry_openai", "fallback",
                               Row.attempt_count + 1, NoRow, NULL)
     /\ local' = [local EXCEPT !.conf_exc = metrics.error]
     /\ pc' = "pause"

\* faulty variant of PauseJob: the pause is stored without its error message
PauseJobNoMessage ==
  /\ pc = "pause"
  /\ UNCHANGED <<assigner, registry, fallback, globalizer, planner, editor, labeler, remote, source, source_exists, chunks, files>>
  /\ job' = update_job_status(job, "paused_retry_openai", local.done_chunks,
                              local.total_chunks, NoRow)
  /\ events' = Append(events,
                 ProgressEvent("paused", "paused_retry_openai", "transcribe",
                               Percent(10, local.done_chunks, local.total_chunks, 80),
                               local.done_chunks, local.total_chunks))
  /\ Finish(last.op, "return", 2)

\* LowSpeakerConfidenceError: lines 244-268, the job row, "paused", return 2
PauseJob ==
  /\ pc = "pause"
  /\ UNCHANGED <<assigner, registry, fallback, globalizer, planner, editor, labeler, remote, source, source_exists, chunks, files>>
  /\ job' = update_job_status(job, "paused_retry_openai", local.done_chunks,
                              local.total_chunks, local.conf_exc)
  /\ events' = Append(events,
                 ProgressEvent("paused", "paused_retry_openai", "transcribe",
                               Percent(10, local.done_chunks, local.total_chunks, 80),
                               local.done_chunks, local.total_chunks))
  /\ Finish(last.op, "return", 2)

\* faulty variant of BothErrors: the remote error is dropped from the message
OnlyFallbackError(openai_exc, fallback_exc) == <<"Fallback: ", fallback_exc>>

\* f"OpenAI: {openai_exc}; Fallback: {fallback_exc}"
BothErrors(openai_exc, fallback_exc) ==
  <<"OpenAI: ", openai_exc, "; Fallback: ", fallback_exc>>

\* FallbackUnavailableError or any other exception: lines 269-288
FallbackError(fallback_exc) ==
  /\ pc = "fallback"
  /\ UNCHANGED <<assigner, registry, fallback, globalizer, planner, editor, labeler, remote, source, source_exists, chunks, files>>
  /\ job' = update_job_status(job, "failed", local.done_chunks, local.total_chunks,
                              BothErrors(local.openai_exc, fallback_exc))
  /\ events' = Append(events, ErrorEvent(BothErrors(local.openai_exc, fallback_exc)))
  /\ Finish(last.op, "return", 1)

\* what a file holds when the process died while writing it
TRUNCATED == [chunkIndex |-> NULL, engine |-> "", segments |-> << >>]

\* the file at `idx` of a directory holds `content`
WithFile(dir, idx, content) ==
  [i \in (DOMAIN dir) \cup {idx} |-> IF i = idx THEN content ELSE dir[i]]

WithoutFile(dir, idx) == [i \in (DOMAIN dir) \ {idx} |-> dir[i]]

\* faulty variant of atomic_write_json: the payload is written onto the path
\* itself; the files left by a process that dies while writing
InterruptedDirectWrite(path_files, tmp_files, idx) ==
  [path |-> WithFile(path_files, idx, TRUNCATED), tmp |-> tmp_files]

\* atomic_write_json, line 330: the files left by a process that dies in
\* tmp.write_text
InterruptedWrite(path_files, tmp_files, idx) ==
  [path |-> path_files, tmp |-> WithFile(tmp_files, idx, TRUNCATED)]

\* the payload of lines 317-320
CheckpointPayload ==
  [chunkIndex |-> Row.idx, engine |-> local.engine, segments |-> local.globalized]

\* atomic_write_json(checkpoints_dir / chunk_<idx>.json, ...), line 330:
\* tmp.write_text(...)
WriteCheckpointTmp ==
  /\ pc = "checkpoint"
  /\ UNCHANGED <<assigner, registry, fallback, globalizer, planner, editor, labeler, remote, source, source_exists, store, wav, checkpoints, result_file, events, last, local>>
  /\ tmp_checkpoints' = WithFile(tmp_checkpoints, Row.idx, CheckpointPayload)
  /\ pc' = "rename"

\* the process is killed in the middle of tmp.write_text
KillWritingCheckpoint ==
  /\ pc = "checkpoint"
  /\ UNCHANGED <<assigner, registry, fallback, globalizer, planner, editor, labeler, remote, source, source_exists, store, wav, result_file, events>>
  /\ LET left == InterruptedWrite(checkpoints, tmp_checkpoints, Row.idx) IN
     /\ checkpoints' = left.path
     /\ tmp_checkpoints' = left.tmp
  /\ Finish(last.op, "killed", NULL)

\* atomic_write_json, line 331: tmp.replace(path)
WriteCheckpoint ==
  /\ pc = "rename"
  /\ UNCHANGED <<assigner, registry, fallback, globalizer, planner, editor, labeler, remote, source, source_exists, store, wav, result_file, events, last, local>>
  /\ checkpoints' = WithFile(checkpoints, Row.idx, tmp_checkpoints[Row.idx])
  /\ tmp_checkpoints' = WithoutFile(tmp_checkpoints, Row.idx)
  /\ pc' = "progress"

\* lines 322-352: count the chunk, store chunks_done, emit progress
UpdateProgress ==
  /\ pc = "progress"
  /\ UNCHANGED <<assigner, registry, fallback, globalizer, planner, editor, labeler, remote, source, source_exists, chunks, files, last>>
  /\ LET done_chunks == local.done_chunks + 1 IN
     /\ job' = update_job_status(job, "transcribing_openai", done_chunks,
                                 local.total_chunks, NoRow)
     /\ events' = Append(events,
                    ProgressEvent("progress", "transcribing_openai", "transcribe",
                                  Percent(10, done_chunks, local.total_chunks, 80),
                                  done_chunks, local.total_chunks))
     /\ local' = [local EXCEPT !.done_chunks = done_chunks, !.i = local.i + 1,
                               !.engine = "", !.globalized = << >>, !.openai_exc = ""]
  /\ pc' = "loop"

\* lines 354-373: the loop is over, status "merging"
BeginMerge ==
  /\ pc = "loop"
  /\ NextPending(local.chunk_rows, local.i) = 0
  /\ UNCHANGED <<assigner, registry, fallback, globalizer, planner, editor, labeler, remote, source, source_exists, chunks, files, last>>
  /\ job' = update_job_status(job, "merging", local.done_chunks, local.total_chunks, NoRow)
  /\ events' = Append(events,
                 ProgressEvent("progress", "merging", "merge", Percent(94, 0, 1, 0),
                               local.done_chunks, local.total_chunks))
  /\ local' = [local EXCEPT !.i = 0]
  /\ pc' = "merge"

\* lines 375-388: collect, merge_and_label, set_final_transcript
SetFinal ==
  /\ pc = "merge"
  /\ UNCHANGED <<assigner, registry, fallback, globalizer, planner, editor, labeler, remote, source, source_exists, chunks, files, events, last>>
  /\ LET labeled == merge_and_label(Collect(list_chunks(chunks)),
                                    local.interviewer_count, local.participant_count)
     IN /\ job' = set_final_transcript(job, labeled, "ready")
        /\ local' = [local EXCEPT !.labeled = labeled]
  /\ pc' = "final"

\* line 389: update_job_status(..., "ready", chunks_done=total, chunks_total=total)
FinalStatus ==
  /\ pc = "final"
  /\ UNCHANGED <<assigner, registry, fallback, globalizer, planner, editor, labeler, remote, source, source_exists, chunks, files, events, last, local>>
  /\ job' = update_job_status(job, "ready", local.total_chunks, local.total_chunks, NoRow)
  /\ pc' = "result"

\* lines 391-407: result.json, read_job_result, "result", return 0
WriteResult ==
  /\ pc = "result"
  /\ UNCHANGED <<assigner, registry, fallback, globalizer, planner, editor, labeler, remote, source, source_exists, store, wav, checkpoints, tmp_checkpoints>>
  /\ result_file' = <<local.labeled>>
  /\ IF job.exists
     THEN /\ events' = Append(events, ResultEvent)
          /\ Finish(last.op, "return", 0)
     ELSE /\ events' = Append(events, ErrorEvent(<<"Kunne ikke indlæse slutresultat">>))
          /\ Finish(last.op, "return", 1)

\* the worker process is killed (or the machine stops) between two steps
Kill ==
  /\ pc # "idle"
  /\ UNCHANGED <<assigner, registry, fallback, globalizer, planner, editor, labeler, remote, source, source_exists, store, files, events>>
  /\ Finish(last.op, "killed", NULL)

\* command_swap_roles
SwapRoles ==
  /\ pc = "idle"
  /\ UNCHANGED <<assigner, registry, fallback, globalizer, planner, editor, labeler, remote, source, source_exists, chunks, files>>
  /\ IF ~job.exists
     THEN /\ events' = <<ErrorEvent(<<"Job findes ikke">>)>>
          /\ Finish("swap-roles", "return", 1)
          /\ UNCHANGED job
     ELSE /\ job' = toggle_swap_roles(job)
          /\ events' = <<ResultEvent>>
          /\ Finish("swap-roles", "return", 0)

\* faulty variant of UpdateTranscript: a text that does not parse empties the
\* stored transcript
UpdateTranscriptEager(text) ==
  /\ pc = "idle"
  /\ UNCHANGED <<assigner, registry, fallback, globalizer, planner, editor, labeler, remote, source, source_exists, chunks, files>>
  /\ IF ~job.exists
     THEN /\ events' = <<ErrorEvent(<<"Job findes ikke">>)>>
          /\ Finish("update-transcript", "return", 1)
          /\ UNCHANGED job
     ELSE LET parsed == parse_editor_text(text, get_transcript(job)) IN
          IF ~parsed.ok
          THEN /\ job' = set_final_transcript(job, << >>, job.status)
               /\ events' = <<ErrorEvent(parsed.error)>>
               /\ Finish("update-transcript", "return", 1)
          ELSE /\ job' = set_final_transcript(job, parsed.value, "ready")
               /\ events' = <<ResultEvent>>
               /\ Finish("update-transcript", "return", 0)

\* command_update_transcript when the --input file is not there (lines 514-518)
UpdateTranscriptNoInput ==
  /\ pc = "idle"
  /\ UNCHANGED <<assigner, registry, fallback, globalizer, planner, editor, labeler, remote, source, source_exists, store, files>>
  /\ events' = <<ErrorEvent(IF ~job.exists THEN <<"Job findes ikke">>
                            ELSE <<"Redigeret fil blev ikke fundet">>)>>
  /\ Finish("update-transcript", "return", 1)

\* command_update_transcript with the edited text in the --input file
UpdateTranscript(text) ==
  /\ pc = "idle"
  /\ UNCHANGED <<assigner, registry, fallback, globalizer, planner, editor, labeler, remote, source, source_exists, chunks, files>>
  /\ IF ~job.exists
     THEN /\ events' = <<ErrorEvent(<<"Job findes ikke">>)>>
          /\ Finish("update-transcript", "return", 1)
          /\ UNCHANGED job
     ELSE LET parsed == parse_editor_text(text, get_transcript(job)) IN
          IF ~parsed.ok
          THEN /\ events' = <<ErrorEvent(parsed.error)>>
               /\ Finish("update-transcript", "return", 1)
               /\ UNCHANGED job
          ELSE /\ job' = set_final_transcript(job, parsed.value, "ready")
               /\ events' = <<ResultEvent>>
               /\ Finish("update-transcript", "return", 0)

\* remove_ready_job_dirs as run by a non-resume run-job of another job:
\* this job's directory goes when this job is ready
RemoveReadyJobDirs ==
  /\ pc = "idle"
  /\ job.exists /\ job.status = "ready"
  /\ wav # {} \/ checkpoints # NoFiles \/ tmp_checkpoints # NoFiles \/ result_file # NoRow
  /\ wav' = {}
  /\ checkpoints' = NoFiles
  /\ tmp_checkpoints' = NoFiles
  /\ result_file' = NoRow
  /\ UNCHANGED <<assigner, registry, fallback, globalizer, planner, editor, labeler, remote, source, source_exists, store, pc, local, events, last>>

\* the user moves or deletes the recording between two commands
SourceRemoved ==
  /\ pc = "idle"
  /\ source_exists
  /\ job.exists
  /\ source_exists' = FALSE
  /\ UNCHANGED <<assigner, registry, fallback, globalizer, planner, editor, labeler, remote, source, store, files, pc, local, events, last>>

\* one run-job / run-job --resume process at a time, killed at any point
Next ==
  \/ \E a \in CountArgs : RunJob(a[1], a[2])
  \/ ResumeJob
  \/ StartRun
  \/ Preprocess
  \/ PersistChunk
  \/ \E rendered \in 0..(MaxChunks - 1) : DecoderFails(rendered)
  \/ MarkTranscribing
  \/ BeginChunk
  \/ RemoteOk
  \/ \E e \in RemoteErrors : RemoteFail(e)
  \/ FallbackOk
  \/ FallbackLowConfidence
  \/ PauseJob
  \/ \E e \in FallbackErrors : FallbackError(e)
  \/ WriteCheckpointTmp
  \/ KillWritingCheckpoint
  \/ WriteCheckpoint
  \/ UpdateProgress
  \/ BeginMerge
  \/ SetFinal
  \/ FinalStatus
  \/ WriteResult
  \/ Kill

Spec == Init /\ [][Next]_vars

\* the driver, and between its runs the other commands and the environment
NextOps ==
  \/ Next
  \/ SwapRoles
  \/ \E t \in EditorTexts : UpdateTranscript(t)
  \/ UpdateTranscriptNoInput
  \/ RemoveReadyJobDirs
  \/ SourceRemoved
  \/ LazyRenderFails

SpecOps == Init /\ [][NextOps]_vars

\* the commands of one job run one after another, each to its end
NextCmd ==
  \/ \E a \in CountArgs : RunJob(a[1], a[2])
  \/ ResumeJob
  \/ StartRun
  \/ Preprocess
  \/ PersistChunk
  \/ MarkTranscribing
  \/ BeginChunk
  \/ RemoteOk
  \/ \E e \in RemoteErrors : RemoteFail(e)
  \/ FallbackOk
  \/ FallbackLowConfidence
  \/ PauseJob
  \/ \E e \in FallbackErrors : FallbackError(e)
  \/ WriteCheckpointTmp
  \/ WriteCheckpoint
  \/ UpdateProgress
  \/ BeginMerge
  \/ SetFinal
  \/ FinalStatus
  \/ WriteResult
  \/ SwapRoles
  \/ \E t \in EditorTexts : UpdateTranscript(t)
  \/ UpdateTranscriptNoInput

SpecCmd == Init /\ [][NextCmd]_vars

\* command_swap_roles started as a second process while a run-job process
\* of the same job is between two of its steps (nothing in worker.py or
\* storage.py holds it back; its events go to its own stdout)
SwapRolesMeanwhile ==
  /\ pc # "idle"
  /\ job.exists
  /\ job' = toggle_swap_roles(job)
  /\ UNCHANGED <<assigner, registry, fallback, globalizer, planner, editor, labeler, remote, source,
               source_exists, chunks, files, pc, local, events, last>>

\* command_update_transcript started as a second process during a run
UpdateTranscriptMeanwhile(text) ==
  /\ pc # "idle"
  /\ job.exists
  /\ LET parsed == parse_editor_text(text, get_transcript(job)) IN
     /\ parsed.ok
     /\ job' = set_final_transcript(job, parsed.value, "ready")
  /\ UNCHANGED <<assigner, registry, fallback, globalizer, planner, editor, labeler, remote, source,
               source_exists, chunks, files, pc, local, events, last>>

\* the driver, and the other commands as processes of their own
NextShared ==
  \/ Next
  \/ SwapRolesMeanwhile
  \/ \E t \in EditorTexts : UpdateTranscriptMeanwhile(t)

SpecShared == Init /\ [][NextShared]_vars

\* ------------------------------------------------- the remote engine, inside
\* transcribe_chunk_openai (openai_engine.py), one provider call per step.
\* An error is the token sequence of str(exc); a payload is
\* [well_formed, text, segments], well_formed FALSE when a confidence in it
\* is not a number, so that float(confidence) raises ValueError.

BACKOFF_START == 1
BACKOFF_MAX == 12
FORMATS == <<"diarized_json", "json">>

\* str.lower() on the tokens the provider errors below are made of
Lower(tok) ==
  CASE tok = "The" -> "the"
    [] tok = "Unsupported_Value" -> "unsupported_value"
    [] tok = "Could" -> "could"
    [] OTHER -> tok

ProviderErrors ==
  { <<"The", "request", "timed", "out.">>,
    <<"response_format", "diarized_json", "unsupported_value">>,
    <<"Unsupported_Value", "for", "format">> }

ValueError == <<"Could", "not", "convert", "string", "to", "float">>

\* faulty variant of _is_response_format_error: every error is taken for a
\* rejected format
AnyErrorIsFormatError(exc) == TRUE

\* _is_response_format_error: the two keys searched in str(exc).lower()
_is_response_format_error(exc) ==
  LET message == [k \in 1..Len(exc) |-> Lower(exc[k])] IN
  \E k \in 1..Len(message) : message[k] \in {"response_format", "unsupported_value"}

\* what the provider returns to the diarize call of attempt number `attempt`
DiarizedPayload(attempt, well_formed) ==
  [well_formed |-> well_formed, text |-> << >>,
   segments |->
     << [start |-> 0, end |-> 20 + attempt, speaker |-> "speaker_A",
         text |-> <<"placeholder">>, confidence |-> NULL],
        [start |-> 20 + attempt, end |-> 60, speaker |-> "",
         text |-> <<"placeholder">>, confidence |-> NULL],
        [start |-> 60, end |-> 80, speaker |-> "speaker_B",
         text |-> << >>, confidence |-> NULL],
        [start |-> 90, end |-> 80, speaker |-> "speaker_B",
         text |-> <<"placeholder">>, confidence |-> NULL] >>]

\* what the provider returns to the verbose_json call of that attempt
WhisperPayload(attempt, well_formed) ==
  [well_formed |-> well_formed, text |-> << >>,
   segments |->
     << [start |-> 0, end |-> 18, speaker |-> "",
         text |-> <<"Hej", "fra", "whisper">>, confidence |-> 80 + attempt],
        [start |-> 19, end |-> 40, speaker |-> "",
         text |-> <<"Test">>, confidence |-> NULL],
        [start |-> 84, end |-> 88, speaker |-> "",
         text |-> <<"Ja">>, confidence |-> 60] >>]

_parse_speaker(raw) == IF raw.speaker # "" THEN raw.speaker ELSE "speaker_0"

\* _parse_segments / _parse_whisper_segments on a well-formed payload: a raw
\* segment without text is skipped, times are clamped; the speaker is the
\* parsed one for the first and "unknown" for the second
ParsePayload(payload, diarized) ==
  IF payload.segments = << >>
  THEN IF payload.text = << >> THEN << >>
       ELSE <<Segment(0, 0, IF diarized THEN "speaker_0" ELSE "unknown", payload.text, NULL)>>
  ELSE LET kept == SelectSeq(payload.segments, LAMBDA raw : raw.text # << >>) IN
       [k \in 1..Len(kept) |->
          Segment(Max(0, kept[k].start), Max(kept[k].start, kept[k].end),
                  IF diarized THEN _parse_speaker(kept[k]) ELSE "unknown",
                  kept[k].text, kept[k].confidence)]

_parse_segments(payload) == ParsePayload(payload, TRUE)

_parse_whisper_segments(payload) == ParsePayload(payload, FALSE)

_overlap(a_start, a_end, b_start, b_end) ==
  Max(0, Min(a_end, b_end) - Max(a_start, b_start))

Abs(x) == IF x < 0 THEN 0 - x ELSE x

\* faulty variant of the loop of _assign_speaker: a candidate that ties with
\* the best so far replaces it
RECURSIVE BestOverlapLatest(_, _, _, _)
BestOverlapLatest(segment, diarized, k, best) ==
  IF k > Len(diarized) THEN best
  ELSE LET overlap == _overlap(segment.start_sec, segment.end_sec,
                               diarized[k].start_sec, diarized[k].end_sec)
       IN BestOverlapLatest(segment, diarized, k + 1,
                            IF overlap >= best.overlap
                            THEN [overlap |-> overlap, speaker |-> diarized[k].speaker]
                            ELSE best)

\* the loop of _assign_speaker: [overlap, speaker] of the first candidate
\* with the largest overlap
RECURSIVE BestOverlap(_, _, _, _)
BestOverlap(segment, diarized, k, best) ==
  IF k > Len(diarized) THEN best
  ELSE LET overlap == _overlap(segment.start_sec, segment.end_sec,
                               diarized[k].start_sec, diarized[k].end_sec)
       IN BestOverlap(segment, diarized, k + 1,
                      IF overlap > best.overlap
                      THEN [overlap |-> overlap, speaker |-> diarized[k].speaker]
                      ELSE best)

\* min(diarized, key = distance of the midpoints): the first of the nearest;
\* midpoints are compared doubled
RECURSIVE Nearest(_, _, _, _)
Nearest(segment, diarized, k, best) ==
  IF k > Len(diarized) THEN best
  ELSE LET dist(c) == Abs((segment.start_sec + segment.end_sec) - (c.start_sec + c.end_sec))
       IN Nearest(segment, diarized, k + 1,
                  IF dist(diarized[k]) < dist(best) THEN diarized[k] ELSE best)

_assign_speaker(segment, diarized) ==
  IF diarized = << >> THEN "speaker_0"
  ELSE LET best == BestOverlap(segment, diarized, 1,
                               [overlap |-> -1, speaker |-> diarized[1].speaker])
       IN IF best.overlap > 0 THEN best.speaker
          ELSE Nearest(segment, diarized, 1, diarized[1]).speaker

_merge_text_with_speakers(whisper_segments, diarized_segments) ==
  IF whisper_segments = << >> /\ diarized_segments # << >> THEN diarized_segments
  ELSE IF whisper_segments = << >> THEN << >>
  ELSE [k \in 1..Len(whisper_segments) |->
          Segment(whisper_segments[k].start_sec, whisper_segments[k].end_sec,
                  _assign_speaker(whisper_segments[k], diarized_segments),
                  whisper_segments[k].text, whisper_segments[k].confidence)]

\* f"OpenAI transskription fejlede efter {max_retries} forsÃ¸g: {last_error}"
RetryMessage(max_retries, last_error) ==
  <<"OpenAI", "transskription", "fejlede", "efter", ToString(max_retries), "forsÃ¸g:">>
  \o last_error

\* one entry of the client's call list, with how the provider answered:
\* outcome "ok" (it returned a payload; parses: the parsers accept it) or
\* "error" (it raised the exception whose message is error)
Call(response_format, attempt, outcome, parses, error) ==
  [response_format |-> response_format, attempt |-> attempt, outcome |-> outcome,
   parses |-> parses, error |-> error]

\* faulty variant of AttemptFails: one attempt too many
AttemptFailsLate(r, exc) ==
  IF r.attempt > r.max_retries
  THEN [r EXCEPT !.pc = "raised", !.last_error = exc,
                 !.raised = RetryMessage(r.max_retries, exc)]
  ELSE [r EXCEPT !.pc = "diarize", !.last_error = exc, !.attempt = r.attempt + 1,
                 !.format = 1, !.diarized_response = << >>,
                 !.backoff = Min(r.backoff * 2, BACKOFF_MAX)]

\* the except clause of the retry loop, lines 229-235, and line 237
AttemptFails(r, exc) ==
  IF r.attempt >= r.max_retries
  THEN [r EXCEPT !.pc = "raised", !.last_error = exc,
                 !.raised = RetryMessage(r.max_retries, exc)]
  ELSE [r EXCEPT !.pc = "diarize", !.last_error = exc, !.attempt = r.attempt + 1,
                 !.format = 1, !.diarized_response = << >>,
                 !.backoff = Min(r.backoff * 2, BACKOFF_MAX)]

\* transcribe_chunk_openai is called: lines 193-204
CallRemote(max_retries, api_key) ==
  /\ pc = "idle"
  /\ remote.pc = "off"
  /\ remote' =
       IF ~api_key
       THEN [RemoteOff EXCEPT !.pc = "raised", !.max_retries = max_retries,
                              !.raised = <<"OPENAI_API_KEY", "mangler">>]
       ELSE [RemoteOff EXCEPT !.pc = "diarize", !.max_retries = max_retries,
                              !.attempt = 1, !.format = 1, !.backoff = BACKOFF_START]
  /\ UNCHANGED <<assigner, registry, fallback, globalizer, planner, editor, labeler, source, source_exists, job, chunks, files, pc, local, events, last>>

\* _request_diarized_payload: the call with formats[remote.format] returns
DiarizeReturns(well_formed) ==
  /\ remote.pc = "diarize"
  /\ remote' = [remote EXCEPT
       !.pc = "verbose",
       !.calls = Append(@, Call(FORMATS[remote.format], remote.attempt, "ok", well_formed, << >>)),
       !.diarized_response = <<DiarizedPayload(remote.attempt, well_formed)>>]
  /\ UNCHANGED <<assigner, registry, fallback, globalizer, planner, editor, labeler, source, source_exists, job, chunks, files, pc, local, events, last>>

\* _request_diarized_payload: the call with formats[remote.format] raises
DiarizeRaises(exc) ==
  /\ remote.pc = "diarize"
  /\ LET called == [remote EXCEPT
           !.calls = Append(@, Call(FORMATS[remote.format], remote.attempt, "error", FALSE, exc))]
     IN remote' =
          IF _is_response_format_error(exc) /\ remote.format < Len(FORMATS)
          THEN [called EXCEPT !.format = remote.format + 1, !.last_error = exc]
          ELSE AttemptFails(called, exc)
  /\ UNCHANGED <<assigner, registry, fallback, globalizer, planner, editor, labeler, source, source_exists, job, chunks, files, pc, local, events, last>>

\* the verbose_json call returns; lines 216-228: parse, merge, return
VerboseReturns(well_formed) ==
  /\ remote.pc = "verbose"
  /\ LET called == [remote EXCEPT
           !.calls = Append(@, Call("verbose_json", remote.attempt, "ok", well_formed, << >>))]
         diarized_payload == remote.diarized_response[1]
         whisper_payload == WhisperPayload(remote.attempt, well_formed)
         segments == _merge_text_with_speakers(_parse_whisper_segments(whisper_payload),
                                               _parse_segments(diarized_payload))
     IN remote' =
          IF ~diarized_payload.well_formed \/ ~whisper_payload.well_formed
          THEN AttemptFails(called, ValueError)
          ELSE [called EXCEPT !.pc = "returned", !.segments = segments,
                              !.avg_conf = AvgConfidence(segments)]
  /\ UNCHANGED <<assigner, registry, fallback, globalizer, planner, editor, labeler, source, source_exists, job, chunks, files, pc, local, events, last>>

\* the verbose_json call raises
VerboseRaises(exc) ==
  /\ remote.pc = "verbose"
  /\ remote' = AttemptFails(
        [remote EXCEPT !.calls = Append(@, Call("verbose_json", remote.attempt, "error", FALSE, exc))],
        exc)
  /\ UNCHANGED <<assigner, registry, fallback, globalizer, planner, editor, labeler, source, source_exists, job, chunks, files, pc, local, events, last>>

\* one call of transcribe_chunk_openai against a provider that answers each
\* request as it likes
NextRemote ==
  \/ \E max_retries \in 1..MaxRetries, api_key \in BOOLEAN : CallRemote(max_retries, api_key)
  \/ \E well_formed \in BOOLEAN : DiarizeReturns(well_formed)
  \/ \E exc \in ProviderErrors : DiarizeRaises(exc)
  \/ \E well_formed \in BOOLEAN : VerboseReturns(well_formed)
  \/ \E exc \in ProviderErrors : VerboseRaises(exc)

SpecRemote == Init /\ [][NextRemote]_vars

\* ------------------------------------------- merge_and_label, called directly
\* Speaker labels a caller can pass: none, and three raw labels.
RawSpeakers == {"", "speaker_0", "speaker_1", "speaker_2"}

\* Texts a caller can pass: a question, a backchannel, a statement.
SegmentTexts == { <<"Kan", "du", "fortælle?">>, <<"Ja">>, <<"jeg", "arbejder", "hjemme.">> }

\* (interviewer_count, participant_count) a caller can pass; the function
\* itself accepts any integers
CountPairs == { <<1, 1>>, <<0, 0>>, <<2, 1>>, <<1, 3>>, <<-1, 2>>, <<3, 1>> }

\* the k-th segment of a call: one second long, SEGMENT_START_STEP apart,
\* the first one labeler.offset into the recording
SegmentInput(k, speaker, text) ==
  Segment(labeler.offset + (k - 1) * SEGMENT_START_STEP,
          labeler.offset + (k - 1) * SEGMENT_START_STEP + SEGMENT_DURATION,
          speaker, text, 90)

\* the caller puts one more segment on the list it is going to pass
CollectSegment(speaker, text) ==
  /\ labeler.pc = "off"
  /\ Len(labeler.segments) < MaxSegments
  /\ labeler' = [labeler EXCEPT
                   !.segments = Append(@, SegmentInput(Len(@) + 1, speaker, text))]
  /\ UNCHANGED <<assigner, registry, fallback, globalizer, planner, editor, remote, source, source_exists,
               job, chunks, files, pc, local, events, last>>

\* merge_and_label(segments, interviewer_count=..., participant_count=...)
MergeAndLabel(interviewer_count, participant_count) ==
  /\ labeler.pc = "off"
  /\ labeler' = [labeler EXCEPT
                   !.pc = "returned",
                   !.interviewer_count = interviewer_count,
                   !.participant_count = participant_count,
                   !.filtered = filter_style_noise(dedupe_segments(labeler.segments)),
                   !.labeled = merge_and_label(labeler.segments, interviewer_count,
                                               participant_count)]
  /\ UNCHANGED <<assigner, registry, fallback, globalizer, planner, editor, remote, source, source_exists,
               job, chunks, files, pc, local, events, last>>

NextLabel ==
  \/ \E speaker \in RawSpeakers, text \in SegmentTexts : CollectSegment(speaker, text)
  \/ \E counts \in CountPairs : MergeAndLabel(counts[1], counts[2])

\* merge_and_label reads nothing but its arguments: one recording is enough
InitLabel == Init /\ source = [n |-> 1, kind |-> "dialog"]

SpecLabel == InitLabel /\ [][NextLabel]_vars

\* the same calls on segments from late in a recording: the first segment
\* starts one step before the end of the start-bonus window, the others
\* after it
InitLate ==
  /\ source = [n |-> 1, kind |-> "dialog"]
  /\ source_exists = TRUE
  /\ job = NoJob
  /\ chunks = NoFiles
  /\ wav = {}
  /\ checkpoints = NoFiles
  /\ tmp_checkpoints = NoFiles
  /\ result_file = NoRow
  /\ pc = "idle"
  /\ local = IdleLocal
  /\ events = << >>
  /\ last = [op |-> "none", how |-> "none", code |-> NULL]
  /\ remote = RemoteOff
  /\ labeler = [LabelerOff EXCEPT !.offset = START_BONUS_WINDOW - SEGMENT_START_STEP]
  /\ editor = EditorOff
  /\ planner = PlannerOff
  /\ globalizer = GlobalizerOff
  /\ fallback = FallbackOff
  /\ registry = RegistryOff
  /\ assigner = AssignerOff

SpecLate == InitLate /\ [][NextLabel]_vars

\* ----------------------------------------- parse_editor_text, called directly
\* Lines a caller can pass, as sequences of characters ("x" is any character
\* that is neither white space, a colon nor one of I i D d).
BlankLines == { << >>, <<" ">> }

UnprefixedLines == { <<"x">>, <<"I", " ", "x", ":">> }

EmptyBodyLines == { <<"I", ":">>, <<" ", "d", " ", ":", " ">> }

\* well-formed lines, each with the speaker and the body it spells
WellFormedLines ==
  { [chars |-> <<"I", ":", " ", "x">>, speaker |-> "I", body |-> <<"x">>],
    [chars |-> <<" ", "d", " ", ":", "x", " ", "x", " ">>, speaker |-> "D",
     body |-> <<"x", " ", "x">>],
    [chars |-> <<"i", ":", ":", "D">>, speaker |-> "I", body |-> <<":", "D">>] }

EditorLines ==
  BlankLines \cup UnprefixedLines \cup EmptyBodyLines \cup { w.chars : w \in WellFormedLines }

\* Stored transcripts a caller can pass as fallback_transcript: none, one
\* utterance with a confidence, and three utterances of which the first has
\* no confidence key and the second has confidence None.
FallbackTranscripts ==
  { << >>,
    << [startSec |-> 0, endSec |-> 20, speaker |-> "I", text |-> <<"Ja">>, confidence |-> 90] >>,
    << [startSec |-> 0, endSec |-> 20, speaker |-> "I", text |-> <<"Ja">>],
       [startSec |-> 60, endSec |-> 80, speaker |-> "D", text |-> <<"Ja">>, confidence |-> NULL],
       [startSec |-> 120, endSec |-> 140, speaker |-> "D", text |-> <<"Ja">>, confidence |-> 80] >> }

\* the caller types one more line of the text it is going to pass
TypeLine(line) ==
  /\ editor.pc = "off"
  /\ Len(editor.text) < MaxLines
  /\ editor' = [editor EXCEPT !.text = Append(@, line)]
  /\ UNCHANGED <<assigner, registry, fallback, globalizer, planner, labeler, remote, source, source_exists,
               job, chunks, files, pc, local, events, last>>

\* parse_editor_text(text, fallback_transcript)
ParseEditorText(fallback_transcript) ==
  /\ editor.pc = "off"
  /\ editor' = [editor EXCEPT
                  !.pc = "returned",
                  !.fallback_transcript = fallback_transcript,
                  !.parsed = parse_editor_text(editor.text, fallback_transcript)]
  /\ UNCHANGED <<assigner, registry, fallback, globalizer, planner, labeler, remote, source, source_exists,
               job, chunks, files, pc, local, events, last>>

NextEditor ==
  \/ \E line \in EditorLines : TypeLine(line)
  \/ \E fallback_transcript \in FallbackTranscripts : ParseEditorText(fallback_transcript)

SpecEditor == InitLabel /\ [][NextEditor]_vars

\* ---------------------------------------------- create_chunks, called directly
\* Durations the probe can return (multiples of 0.25 s), and the
\* chunk_duration_sec and overlap_sec a caller can pass: 0.5 s to 2.5 s, and
\* 0 s to 3 s.
Durations == { 5 * q : q \in 1..MaxQuarters }

ChunkDurations == { 10, 20, 30, 50 }

Overlaps == { 0, 10, 30, 60 }

\* create_chunks(source, chunk_dir, chunk_duration_sec=..., overlap_sec=...)
\* on a source of the given duration
CreateChunks(duration, chunk_duration_sec, overlap_sec) ==
  /\ planner.pc = "off"
  /\ planner' = [pc |-> "returned", duration |-> duration,
                 chunk_duration |-> chunk_duration_sec, overlap |-> overlap_sec,
                 plan |-> create_chunks(duration, chunk_duration_sec, overlap_sec)]
  /\ UNCHANGED <<assigner, registry, fallback, globalizer, editor, labeler, remote, source, source_exists,
               job, chunks, files, pc, local, events, last>>

NextPlanner ==
  \E duration \in Durations, chunk_duration_sec \in ChunkDurations, overlap_sec \in Overlaps :
     CreateChunks(duration, chunk_duration_sec, overlap_sec)

SpecPlanner == InitLabel /\ [][NextPlanner]_vars

\* ------------------------------- the globalizing loop, on times of 0.1 ms
\* Here a time is counted in tenths of a millisecond, as an engine reports
\* it: 1.234 s, 1.2344 s and 1.2346 s are 12340, 12344 and 12346.
MILLI == 10

ChunkStarts == { 0, 2385000 }              \* chunks 0 and 1 of the default plan

FineStarts == { 12340, 12344, 12346 }

FineDurations == { 10000, 10004 }

\* the engine returns one more segment
HearSegment(start, duration, confidence) ==
  /\ globalizer.pc = "off"
  /\ Len(globalizer.segments) < MaxFineSegments
  /\ globalizer' =
       [globalizer EXCEPT
          !.segments = Append(@, Segment(start, start + duration,
                                         IF Len(@) % 2 = 0 THEN "speaker_0" ELSE "speaker_1",
                                         <<"Ja,", "jeg", "arbejder.">>, confidence))]
  /\ UNCHANGED <<assigner, registry, fallback, planner, editor, labeler, remote, source, source_exists,
               job, chunks, files, pc, local, events, last>>

\* lines 290-300 of transcribe_job for a chunk that starts at chunk_start
GlobalizeChunk(chunk_start) ==
  /\ globalizer.pc = "off"
  /\ globalizer' = [globalizer EXCEPT
                      !.pc = "returned",
                      !.chunk_start = chunk_start,
                      !.globalized = GlobalizeAt(MILLI, chunk_start, globalizer.segments)]
  /\ UNCHANGED <<assigner, registry, fallback, planner, editor, labeler, remote, source, source_exists,
               job, chunks, files, pc, local, events, last>>

NextGlobalizer ==
  \/ \E start \in FineStarts, duration \in FineDurations, confidence \in {NULL, 87} :
        HearSegment(start, duration, confidence)
  \/ \E chunk_start \in ChunkStarts : GlobalizeChunk(chunk_start)

SpecGlobalizer == InitLabel /\ [][NextGlobalizer]_vars

\* ------------------------------------ transcribe_chunk_fallback, called directly
\* What assign_word_speakers returns for a segment: a text (possibly blank)
\* and a speaker ("" for a missing or empty one).
RawSegments ==
  { [text |-> <<"jeg", "arbejder.">>, speaker |-> "SPEAKER_00"],
    [text |-> <<"jeg", "arbejder.">>, speaker |-> "SPEAKER_01"],
    [text |-> <<"jeg", "arbejder.">>, speaker |-> ""],
    [text |-> << >>, speaker |-> "SPEAKER_01"] }

\* where the call can be made: all is in place, HUGGINGFACE_TOKEN is not
\* set, or whisperx is not installed
Environments == { "ready", "no token", "no whisperx" }

\* the loop over raw_segments, lines 110-132 (the k-th raw segment is one
\* second long and starts at 3 s * (k - 1))
RECURSIVE BuildSegments(_, _)
BuildSegments(raw_segments, k) ==
  IF k > Len(raw_segments) THEN << >>
  ELSE LET raw == raw_segments[k] IN
       (IF raw.text = << >> THEN << >>
        ELSE <<Segment((k - 1) * SEGMENT_START_STEP,
                       (k - 1) * SEGMENT_START_STEP + SEGMENT_DURATION,
                       IF raw.speaker = "" THEN "unknown" ELSE raw.speaker,
                       raw.text, NULL)>>)
       \o BuildSegments(raw_segments, k + 1)

\* the local pipeline will return one more segment for the chunk
PipelineSegment(raw) ==
  /\ fallback.pc = "off"
  /\ Len(fallback.raw_segments) < MaxRawSegments
  /\ fallback' = [fallback EXCEPT !.raw_segments = Append(@, raw)]
  /\ UNCHANGED <<assigner, registry, globalizer, planner, editor, labeler, remote, source, source_exists,
               job, chunks, files, pc, local, events, last>>

\* transcribe_chunk_fallback(chunk_path)
TranscribeChunkFallback(environment) ==
  /\ fallback.pc = "off"
  /\ UNCHANGED <<assigner, registry, globalizer, planner, editor, labeler, remote, source, source_exists,
               job, chunks, files, pc, local, events, last>>
  /\ IF environment # "ready"
     THEN \* lines 78-82, or the ImportError of _load_whisper_model
          fallback' = [fallback EXCEPT !.pc = "raised",
                                       !.hf_token = environment # "no token",
                                       !.raised = "FallbackUnavailableError"]
     ELSE LET segments == BuildSegments(fallback.raw_segments, 1)
              quality == FallbackQuality(segments)
          IN IF ~quality.passed
             THEN fallback' = [fallback EXCEPT !.pc = "raised", !.hf_token = TRUE,
                                               !.transcribed = TRUE,
                                               !.raised = "LowSpeakerConfidenceError"]
             ELSE fallback' = [fallback EXCEPT !.pc = "returned", !.hf_token = TRUE,
                                               !.transcribed = TRUE,
                                               !.segments = segments,
                                               !.coverage = quality.coverage]

NextFallback ==
  \/ \E raw \in RawSegments : PipelineSegment(raw)
  \/ \E environment \in Environments : TranscribeChunkFallback(environment)

SpecFallback == InitLabel /\ [][NextFallback]_vars

\* ------------------------------- _merge_text_with_speakers, called directly
\* Text segments of the verbose call and diarized segments of the diarize
\* call, in ticks.  Every diarized interval has a speaker of its own, so the
\* speaker tells which diarized segment was chosen.
TextSegments ==
  { Segment(10, 20, "unknown", <<"jeg", "arbejder.">>, 80),
    Segment(40, 50, "unknown", <<"hvad", "laver", "du?">>, NULL) }

DiarizedSegments ==
  { Segment(0, 15, "speaker_A", <<"placeholder">>, NULL),
    Segment(15, 30, "speaker_B", <<"placeholder">>, NULL),
    Segment(12, 18, "speaker_C", <<"placeholder">>, NULL),
    Segment(20, 40, "speaker_D", <<"placeholder">>, NULL),
    Segment(25, 35, "speaker_E", <<"placeholder">>, NULL),
    Segment(60, 70, "speaker_F", <<"placeholder">>, NULL) }

AssignerStep(next) ==
  /\ assigner' = next
  /\ UNCHANGED <<registry, fallback, globalizer, planner, editor, labeler, remote, source,
               source_exists, job, chunks, files, pc, local, events, last>>

\* _parse_whisper_segments has one more segment
HearText(segment) ==
  /\ assigner.pc = "off"
  /\ Len(assigner.whisper_segments) < MaxTextSegments
  /\ AssignerStep([assigner EXCEPT !.whisper_segments = Append(@, segment)])

\* _parse_segments has one more segment
HearSpeaker(segment) ==
  /\ assigner.pc = "off"
  /\ Len(assigner.diarized_segments) < MaxDiarized
  /\ AssignerStep([assigner EXCEPT !.diarized_segments = Append(@, segment)])

\* _merge_text_with_speakers(whisper_segments, diarized_segments)
MergeTextWithSpeakers ==
  /\ assigner.pc = "off"
  /\ AssignerStep([assigner EXCEPT
       !.pc = "merged",
       !.merged = _merge_text_with_speakers(assigner.whisper_segments,
                                            assigner.diarized_segments)])

NextAssigner ==
  \/ \E segment \in TextSegments : HearText(segment)
  \/ \E segment \in DiarizedSegments : HearSpeaker(segment)
  \/ MergeTextWithSpeakers

SpecAssigner == InitLabel /\ [][NextAssigner]_vars

\* --------------------------------------- the jobs table and the jobs directory
\* Several jobs side by side.  A row keeps what the claims about the table
\* need: its status, its updated_at stamp (now_iso(), here in half-seconds),
\* whether it has chunk rows and whether transcript_json is set.  dirs holds
\* the ids whose directory jobs/<id> exists.  One run-job process at a time.
TICKS_PER_SECOND == 2

INCOMPLETE_STATUSES ==
  { "queued", "preprocessing", "transcribing_openai", "transcribing_fallback",
    "merging", "paused_retry_openai" }

\* faulty variant of the housekeeping: every finished job loses its directory
RemoveFinishedJobDirs(rows, dirs) ==
  dirs \ { id \in JobIds : rows[id].exists /\ rows[id].status \in {"ready", "failed"} }

\* remove_ready_job_dirs(conn, jobs_dir()): the directories that are left
remove_ready_job_dirs(rows, dirs) ==
  dirs \ { id \in JobIds : rows[id].exists /\ rows[id].status = "ready" }

\* SQLite's datetime(updated_at): the stamp without its fraction of a second
datetime(updated_at) == updated_at \div TICKS_PER_SECOND

\* latest_incomplete_job: the rows that ORDER BY datetime(updated_at) DESC
\* LIMIT 1 can return (rows of one second are in no defined order)
latest_incomplete_job(rows) ==
  LET incomplete == { id \in JobIds : rows[id].exists /\ rows[id].status \in INCOMPLETE_STATUSES }
  IN { id \in incomplete :
         \A other \in incomplete :
            datetime(rows[other].updated_at) <= datetime(rows[id].updated_at) }

\* the registry once an answer of find-resumable is no longer on the screen
Quiet == [registry EXCEPT !.asked = FALSE, !.found = << >>]

\* update_job_status(conn, job_id, status)
RowWithStatus(row, status) ==
  [row EXCEPT !.status = status, !.updated_at = registry.clock]

RegistryStep(next) ==
  /\ registry' = next
  /\ UNCHANGED <<assigner, fallback, globalizer, planner, editor, labeler, remote, source, source_exists,
               job, chunks, files, pc, local, events, last>>

\* half a second passes
RegistryTick ==
  /\ registry.clock < MaxClock
  /\ RegistryStep([Quiet EXCEPT !.clock = @ + 1])

\* command_run_job without --resume, up to the call of transcribe_job:
\* create_job and job_dir
RegistryRunJob(id) ==
  /\ registry.running = ""
  /\ ~registry.rows[id].exists
  /\ RegistryStep([Quiet EXCEPT
       !.rows[id] = [exists |-> TRUE, status |-> "queued", updated_at |-> registry.clock,
                     has_chunks |-> FALSE, has_transcript |-> FALSE],
       !.dirs = @ \cup {id},
       !.running = id, !.resume = FALSE, !.pc = "created"])

\* command_run_job with --resume, up to the call of transcribe_job
RegistryResumeJob(id) ==
  /\ registry.running = ""
  /\ registry.rows[id].exists
  /\ RegistryStep([Quiet EXCEPT
       !.dirs = @ \cup {id},
       !.running = id, !.resume = TRUE, !.pc = "created"])

\* transcribe_job, lines 143-151: the source check, the housekeeping of a
\* non-resume run, status preprocessing
RegistryStartPipeline(source_found) ==
  /\ registry.running # "" /\ registry.pc = "created"
  /\ LET id == registry.running IN
     IF ~source_found
     THEN RegistryStep([Quiet EXCEPT
            !.rows[id] = RowWithStatus(@, "failed"),
            !.running = "", !.pc = "idle"])
     ELSE RegistryStep([Quiet EXCEPT
            !.dirs = IF registry.resume THEN @ ELSE remove_ready_job_dirs(registry.rows, @),
            !.rows[id] = RowWithStatus(@, "preprocessing"),
            !.pc = "preprocessing"])

\* preprocess_if_needed and the first status transcribing_openai
RegistryPreprocessed ==
  /\ registry.running # "" /\ registry.pc = "preprocessing"
  /\ RegistryStep([Quiet EXCEPT
       !.rows[registry.running] = [RowWithStatus(@, "transcribing_openai") EXCEPT !.has_chunks = TRUE],
       !.pc = "transcribing"])

\* a chunk is stored: status transcribing_openai is written again
RegistryChunkDone ==
  /\ registry.running # "" /\ registry.pc = "transcribing"
  /\ RegistryStep([Quiet EXCEPT
       !.rows[registry.running] = RowWithStatus(@, "transcribing_openai")])

\* both engines gave up on a chunk: paused_retry_openai (return 2) or
\* failed (return 1)
RegistryGiveUp(status) ==
  /\ registry.running # "" /\ registry.pc = "transcribing"
  /\ RegistryStep([Quiet EXCEPT
       !.rows[registry.running] = RowWithStatus(@, status),
       !.running = "", !.pc = "idle"])

\* all chunks are done: status merging
RegistryMerging ==
  /\ registry.running # "" /\ registry.pc = "transcribing"
  /\ RegistryStep([Quiet EXCEPT
       !.rows[registry.running] = RowWithStatus(@, "merging"),
       !.pc = "merging"])

\* set_final_transcript and status ready
RegistryReady ==
  /\ registry.running # "" /\ registry.pc = "merging"
  /\ RegistryStep([Quiet EXCEPT
       !.rows[registry.running] = [RowWithStatus(@, "ready") EXCEPT !.has_transcript = TRUE],
       !.running = "", !.pc = "idle"])

\* the run-job process is killed
RegistryKill ==
  /\ registry.running # ""
  /\ RegistryStep([Quiet EXCEPT !.running = "", !.pc = "idle"])

\* swap-roles or update-transcript on a job with a transcript:
\* set_final_transcript(..., status="ready")
RegistrySetFinalTranscript(id) ==
  /\ registry.rows[id].exists /\ registry.rows[id].has_transcript
  /\ registry.running # id
  /\ RegistryStep([Quiet EXCEPT !.rows[id] = RowWithStatus(@, "ready")])

\* command_find_resumable
RegistryFindResumable ==
  /\ ~registry.asked
  /\ \/ /\ latest_incomplete_job(registry.rows) = {}
        /\ RegistryStep([registry EXCEPT !.asked = TRUE, !.found = << >>])
     \/ \E id \in latest_incomplete_job(registry.rows) :
           RegistryStep([registry EXCEPT !.asked = TRUE, !.found = <<id>>])

NextRegistry ==
  \/ RegistryTick
  \/ \E id \in JobIds : RegistryRunJob(id)
  \/ \E id \in JobIds : RegistryResumeJob(id)
  \/ \E source_found \in BOOLEAN : RegistryStartPipeline(source_found)
  \/ RegistryPreprocessed
  \/ RegistryChunkDone
  \/ \E status \in {"paused_retry_openai", "failed"} : RegistryGiveUp(status)
  \/ RegistryMerging
  \/ RegistryReady
  \/ RegistryKill
  \/ \E id \in JobIds : RegistrySetFinalTranscript(id)
  \/ RegistryFindResumable

SpecRegistry == InitLabel /\ [][NextRegistry]_vars

\* ====================================================================== claims
DoneRows == CountDone(list_chunks(chunks))
RunReturned(code) ==
  pc = "idle" /\ last.op \in {"run-job", "resume"} /\ last.how = "return" /\ last.code = code

\* what an engine returns for a chunk
EngineSegments(idx, engine) ==
  IF engine = "openai" THEN OpenaiSegments(source, idx)
  ELSE FallbackRawSegments(source, idx)

\* final transcript of one uninterrupted run in which chunk idx was
\* transcribed by engines[idx]
UninterruptedTranscript(engines) ==
  LET plan == create_chunks(SourceDuration(source), CHUNK_DURATION, OVERLAP) IN
  merge_and_label(
    Concat([k \in 1..Len(plan) |->
              _coerce_segments(Globalize(plan[k].start_sec,
                                         EngineSegments(plan[k].idx, engines[plan[k].idx])))]),
    job.interviewer_count, job.participant_count)

\* C1 (as claimed): whenever a run or a resumed run has returned 0, the stored
\* final transcript is the final transcript of an uninterrupted run over the
\* same source (each engine returning the same segments for the same chunk).
C1_ResumeFidelity ==
  RunReturned(0) =>
    \E engines \in [0..(source.n - 1) -> {"openai", "fallback"}] :
       get_transcript(job) = UninterruptedTranscript(engines)

\* C2 (as claimed): status ready implies a non-empty stored transcript whose
\* speakers are all "I" or "D".
C2_ReadyTranscriptLabelled ==
  (job.exists /\ job.status = "ready") =>
    /\ get_transcript(job) # << >>
    /\ \A k \in 1..Len(get_transcript(job)) : get_transcript(job)[k].speaker \in {"I", "D"}

\* C3 (as claimed): in every committed store state chunks_done equals the
\* number of chunk rows with status done.
C3_ChunksDoneEqualsDoneRows == job.exists => job.chunks_done = DoneRows

\* C3 (amended): chunks_done never exceeds the number of done rows and lags it
\* by at most one; it is equal from the moment a run has written chunks_done
\* (line 170, or the update after a checkpoint) until that run's next "done"
\* upsert.
C3_ChunksDoneLagsAtMostOne ==
  job.exists =>
    /\ DoneRows - job.chunks_done \in {0, 1}
    /\ pc \in {"loop", "remote", "fallback", "pause", "merge", "final", "result"}
         => job.chunks_done = DoneRows

\* C3 witness: a run was killed after a chunk's "done" upsert and before the
\* update of chunks_done
C3_Witness ==
  pc = "idle" /\ last.how = "killed" /\ DoneRows = 2 /\ job.chunks_done = 1

\* C4 (as claimed): in every committed store state the chunk rows have exactly
\* the indexes 0..chunks_total-1.
C4_ChunkIndexesContiguous == job.exists => DOMAIN chunks = 0..(job.chunks_total - 1)

\* C5: a checkpoint file chunk_<idx>.json exists only for a chunk whose row is done.
C5_CheckpointImpliesDone ==
  \A i \in DOMAIN checkpoints : i \in DOMAIN chunks /\ chunks[i].status = "done"

\* C5 witness: a resumed run writes the checkpoint of a later chunk while the
\* checkpoint of an earlier run is on disk
C5_Witness ==
  last.op = "resume" /\ pc = "progress" /\ Cardinality(DOMAIN checkpoints) = 2

\* C6: the chunks with status done are a prefix of the plan.
C6_DoneIsPrefix ==
  \A i \in DOMAIN chunks :
     chunks[i].status = "done" =>
        \A j \in 0..(i - 1) : j \in DOMAIN chunks /\ chunks[j].status = "done"

\* C6 witness: a resumed run that paused at chunk 0 earlier has finished
\* chunk 0 and is at chunk 1
C6_Witness ==
  /\ last.op = "resume" /\ pc = "remote"
  /\ chunks[0].status = "done" /\ chunks[0].attempt_count = 2
  /\ chunks[1].status = "transcribing_openai"

\* C7: no step lowers the persisted chunks_done.
C7_ChunksDoneMonotone == [][job'.chunks_done >= job.chunks_done]_vars

\* C7 witness: a resume has written chunks_done for a job with a done chunk
C7_Witness ==
  last.op = "resume" /\ pc = "loop" /\ local.i = 1 /\ job.chunks_done = 1
  /\ job.status = "transcribing_openai"

\* C8 (as claimed): of two consecutive progress/paused events of a run with the
\* same stage, the later has percent >= the earlier.
C8_PercentMonotone ==
  \A k \in 1..(Len(events) - 1) :
     (/\ events[k].type \in {"progress", "paused"}
      /\ events[k + 1].type \in {"progress", "paused"}
      /\ events[k].stage = events[k + 1].stage)
       => events[k + 1].percent >= events[k].percent

\* C9: when the fallback raises LowSpeakerConfidence the chunk row becomes
\* paused_retry_openai with engine fallback; the run then stores job status
\* paused_retry_openai with the error message, emits "paused", returns 2, and
\* leaves every row of a higher idx as it was when the run read the rows.
C9_LowConfidencePauses ==
  [][/\ (pc = "fallback" /\ pc' = "pause") =>
          /\ chunks'[Row.idx].status = "paused_retry_openai"
          /\ chunks'[Row.idx].engine = "fallback"
          /\ \A i \in DOMAIN chunks' : i # Row.idx => i \in DOMAIN chunks /\ chunks'[i] = chunks[i]
          /\ local'.conf_exc # NoRow
     /\ (pc = "pause" /\ last'.how = "return") =>
          /\ pc' = "idle" /\ last'.code = 2
          /\ job'.status = "paused_retry_openai"
          /\ job'.error_message = local.conf_exc /\ job'.error_message # NoRow
          /\ events'[Len(events')].type = "paused"
          /\ chunks' = chunks
          /\ \A k \in (local.i + 1)..Len(local.chunk_rows) :
                chunks'[local.chunk_rows[k].idx] = local.chunk_rows[k]
    ]_vars

\* C9 witness: a run returned 2 at chunk 0 of a two-chunk job
C9_Witness ==
  /\ RunReturned(2) /\ job.status = "paused_retry_openai"
  /\ chunks[0].status = "paused_retry_openai" /\ 1 \in DOMAIN chunks

\* C10: when the remote engine has failed and the fallback fails other than by
\* LowSpeakerConfidence, the run stores job status failed with a message
\* naming both errors, emits "error", returns 1, and leaves every row of a
\* higher idx as it was when the run read the rows.
C10_FallbackFailureFails ==
  [][(pc = "fallback" /\ last'.how = "return") =>
       /\ pc' = "idle" /\ last'.code = 1
       /\ job'.status = "failed"
       /\ local.openai_exc \in RemoteErrors
       /\ \E f \in FallbackErrors :
             job'.error_message = <<"OpenAI: ", local.openai_exc, "; Fallback: ", f>>
       /\ events'[Len(events')].type = "error"
       /\ \A k \in (local.i + 1)..Len(local.chunk_rows) :
             chunks'[local.chunk_rows[k].idx] = local.chunk_rows[k]
    ]_vars

\* C10 witness: a run returned 1 at chunk 0 of a two-chunk job after both
\* engines failed
C10_Witness ==
  /\ RunReturned(1) /\ job.status = "failed"
  /\ chunks[0].status = "transcribing_openai" /\ 1 \in DOMAIN chunks
  /\ chunks[1].status = "queued"

\* the driver (transcribe_job) ends of its own accord in this step
DriverEnds == pc # "idle" /\ pc' = "idle" /\ last'.how \in {"return", "exception"}

\* C11 (as claimed): every run of the driver ends with exit code 0, status
\* ready and a result event last; or with exit code 2, status
\* paused_retry_openai and a paused event last; or with a non-zero exit code
\* and an error event.
C11_ThreeOutcomes ==
  [][DriverEnds =>
       \/ /\ last'.code = 0 /\ job'.status = "ready"
          /\ events' # << >> /\ events'[Len(events')].type = "result"
       \/ /\ last'.code = 2 /\ job'.status = "paused_retry_openai"
          /\ events' # << >> /\ events'[Len(events')].type = "paused"
       \/ /\ last'.code \notin {0, 2}
          /\ \E k \in 1..Len(events') : events'[k].type = "error"
    ]_vars

\* C12 (as claimed): when the decoder fails while planning or while a chunk
\* is rendered again, the job's stored status is failed when the run ends.
C12_DecoderFailureFailsJob ==
  [][(pc \in {"preprocess", "loop"} /\ pc' = "idle" /\ last'.how = "exception")
       => job'.status = "failed"]_vars

\* every chunk that is not done still has its rendered file
NothingToRender ==
  /\ chunks # NoFiles
  /\ \A i \in DOMAIN chunks : chunks[i].status # "done" => i \in wav

\* C13 (as claimed): a resumed run whose source file is gone while no chunk
\* needs rendering does not mark the job failed at its start.
C13_ResumeWithoutSource ==
  [][(pc = "start" /\ local.resume /\ ~source_exists /\ NothingToRender)
       => job'.status # "failed"]_vars

StatusPath ==
  <<"queued", "preprocessing", "transcribing_openai", "transcribing_fallback",
    "merging", "ready">>

StatusRank(status) ==
  CASE status = "queued" -> 0
    [] status = "preprocessing" -> 1
    [] status \in {"transcribing_openai", "transcribing_fallback"} -> 2
    [] status = "merging" -> 3
    [] status = "ready" -> 4
    [] OTHER -> 5

OnStatusPath(status) == \E k \in 1..Len(StatusPath) : StatusPath[k] = status

\* C14 (as claimed): within a run the stored status moves only forward along
\* queued, preprocessing, transcribing_openai, (transcribing_fallback)*,
\* merging, ready, or leaves to paused_retry_openai or failed; it is
\* transcribing_fallback while the fallback engine works on a chunk; ready is
\* entered only from merging; nothing is written after paused_retry_openai
\* or failed.
C14_StatusPath ==
  [][/\ (pc # "idle" /\ job'.status # job.status) =>
          \/ job'.status \in {"paused_retry_openai", "failed"}
          \/ pc = "start" /\ job'.status = "preprocessing"
          \/ /\ OnStatusPath(job.status) /\ OnStatusPath(job'.status)
             /\ StatusRank(job'.status) >= StatusRank(job.status)
             /\ job'.status = "ready" => job.status = "merging"
     /\ pc' = "fallback" => job'.status = "transcribing_fallback"
     /\ (pc \notin {"idle", "start"} /\ job.status \in {"paused_retry_openai", "failed"})
          => job' = job
    ]_vars

\* C15: a job in status ready has no error message: the write that makes a
\* job ready (set_final_transcript in the driver, in swap-roles and in
\* update-transcript) clears it, and no later write of the operation
\* restores one.
C15_ReadyClearsErrorMessage ==
  (job.exists /\ job.status = "ready") => job.error_message = NoRow

\* C15 witness: a run paused the job with its message, and swap-roles or
\* update-transcript then made the job ready
C15_Witness ==
  /\ pc = "idle" /\ last.op \in {"swap-roles", "update-transcript"} /\ last.code = 0
  /\ job.status = "ready" /\ job.error_message = NoRow
  /\ 0 \in DOMAIN chunks /\ chunks[0].status = "paused_retry_openai"

\* the provider calls of one call of transcribe_chunk_openai
IsDiarize(c) == c.response_format \in {"diarized_json", "json"}
IsVerbose(c) == c.response_format = "verbose_json"

\* both calls of attempt a returned
BothCallsSucceed(a) ==
  /\ \E k \in 1..Len(remote.calls) :
        remote.calls[k].attempt = a /\ IsDiarize(remote.calls[k]) /\ remote.calls[k].outcome = "ok"
  /\ \E k \in 1..Len(remote.calls) :
        remote.calls[k].attempt = a /\ IsVerbose(remote.calls[k]) /\ remote.calls[k].outcome = "ok"

\* both calls of attempt a returned payloads the parsers accept
BothCallsParse(a) ==
  /\ \E k \in 1..Len(remote.calls) :
        /\ remote.calls[k].attempt = a /\ IsDiarize(remote.calls[k])
        /\ remote.calls[k].outcome = "ok" /\ remote.calls[k].parses
  /\ \E k \in 1..Len(remote.calls) :
        /\ remote.calls[k].attempt = a /\ IsVerbose(remote.calls[k])
        /\ remote.calls[k].outcome = "ok" /\ remote.calls[k].parses

\* the segments transcribe_chunk_openai returns from the payloads of attempt a
MergedOfAttempt(a) ==
  _merge_text_with_speakers(_parse_whisper_segments(WhisperPayload(a, TRUE)),
                            _parse_segments(DiarizedPayload(a, TRUE)))

\* what C16 says of the attempts, with Succeeds(a) for "attempt a succeeded"
RetryDiscipline(Succeeds(_)) ==
  /\ \A k \in 1..Len(remote.calls) :
        /\ remote.calls[k].attempt \in 1..remote.max_retries
        /\ \A a \in 1..(remote.calls[k].attempt - 1) : ~Succeeds(a)
        /\ IsVerbose(remote.calls[k]) =>
              /\ k > 1 /\ IsDiarize(remote.calls[k - 1])
              /\ remote.calls[k - 1].attempt = remote.calls[k].attempt
              /\ remote.calls[k - 1].outcome = "ok"
  /\ \A a \in 1..remote.max_retries :
        Succeeds(a) => /\ remote.pc = "returned" /\ remote.attempt = a
                       /\ remote.calls[Len(remote.calls)].attempt = a
  /\ remote.pc = "returned" =>
        /\ Succeeds(remote.attempt)
        /\ remote.segments = MergedOfAttempt(remote.attempt)

\* C16 (as claimed): attempts are made one after another until the first in
\* which both the diarize call and the verbose call succeed, at most
\* max_retries of them; the merged segments of that attempt are returned; an
\* attempt whose diarize call fails makes no verbose call; no attempt follows
\* a success.
C16_RetryUntilBothCallsSucceed == RetryDiscipline(BothCallsSucceed)

\* C16 (amended): the same, an attempt counting as successful when both
\* calls succeed and both payloads parse; an attempt whose payload raises in
\* the parsers is retried like one whose call failed.
C16_RetryUntilBothCallsParse == RetryDiscipline(BothCallsParse)

\* C16 witness: failure, diarize success, verbose success with
\* max_retries = 2: three provider calls, the second attempt is returned
C16_Witness ==
  /\ remote.pc = "returned" /\ remote.max_retries = 2 /\ remote.attempt = 2
  /\ Len(remote.calls) = 3 /\ remote.calls[1].outcome = "error"
  /\ remote.segments # << >>

\* the message of the exception has `words` as consecutive tokens from i on
HasWordsAt(message, i, words) ==
  /\ i + Len(words) - 1 <= Len(message)
  /\ \A k \in 1..Len(words) : message[i + k - 1] = words[k]

\* the number of attempts made: the attempt number of the last call
AttemptsMade == IF remote.calls = << >> THEN 0 ELSE remote.calls[Len(remote.calls)].attempt

\* C17 (as claimed): when all max_retries attempts fail, the failure is
\* raised after exactly max_retries attempts, and its message contains
\* "efter <max_retries> forsøg" and the text of the last underlying error.
C17_ExhaustionMessage ==
  (remote.pc = "raised" /\ remote.calls # << >>) =>
    /\ AttemptsMade = remote.max_retries
    /\ \A a \in 1..remote.max_retries : ~BothCallsParse(a)
    /\ \E i \in 1..Len(remote.raised) :
          \/ HasWordsAt(remote.raised, i, <<"efter", ToString(remote.max_retries), "forsøg">>)
          \/ HasWordsAt(remote.raised, i, <<"efter", ToString(remote.max_retries), "forsøg:">>)
    /\ \E i \in 1..Len(remote.raised) : HasWordsAt(remote.raised, i, remote.last_error)

\* the keys of the format negotiation as written, and as the code compares
\* them (in str(exc).lower())
ContainsFormatKey(exc) ==
  \E k \in 1..Len(exc) : exc[k] \in {"response_format", "unsupported_value"}

ContainsFormatKeyAnyCase(exc) ==
  \E k \in 1..Len(exc) : Lower(exc[k]) \in {"response_format", "unsupported_value"}

\* what C18 says of the calls, with Rejected(exc) for "the provider rejected
\* the format"
FormatNegotiation(Rejected(_)) ==
  LET calls == remote.calls
      FirstOfAttempt(k) == k = 1 \/ calls[k - 1].attempt # calls[k].attempt
      SameAttempt(j, k) == calls[j].attempt = calls[k].attempt
  IN \A k \in 1..Len(calls) :
        /\ FirstOfAttempt(k) => calls[k].response_format = "diarized_json"
        /\ calls[k].response_format = "diarized_json" => FirstOfAttempt(k)
        \* json is called only after diarized_json was rejected
        /\ calls[k].response_format = "json" =>
              /\ k > 1 /\ SameAttempt(k - 1, k)
              /\ calls[k - 1].response_format = "diarized_json"
              /\ calls[k - 1].outcome = "error" /\ Rejected(calls[k - 1].error)
        \* and always then
        /\ (/\ calls[k].response_format = "diarized_json"
            /\ calls[k].outcome = "error" /\ Rejected(calls[k].error)) =>
              IF k < Len(calls)
              THEN calls[k + 1].response_format = "json" /\ SameAttempt(k, k + 1)
              ELSE remote.pc = "diarize" /\ remote.format = 2 /\ remote.attempt = calls[k].attempt
        \* exactly one verbose_json call follows a successful diarize call
        /\ (IsDiarize(calls[k]) /\ calls[k].outcome = "ok") =>
              IF k < Len(calls)
              THEN /\ IsVerbose(calls[k + 1]) /\ SameAttempt(k, k + 1)
                   /\ k + 2 <= Len(calls) => ~SameAttempt(k, k + 2)
              ELSE remote.pc = "verbose" /\ remote.attempt = calls[k].attempt
        /\ IsVerbose(calls[k]) =>
              /\ k > 1 /\ SameAttempt(k - 1, k)
              /\ IsDiarize(calls[k - 1]) /\ calls[k - 1].outcome = "ok"

\* C18 (as claimed): in an attempt the diarize call is made with
\* diarized_json first; it is repeated with json if and only if the first
\* call failed with an error whose message contains response_format or
\* unsupported_value; after a successful diarize call exactly one
\* verbose_json call follows.
C18_FormatNegotiation == FormatNegotiation(ContainsFormatKey)

\* C18 (amended): the same, the two keys being looked for in the lower-cased
\* message, so that "Unsupported_Value" is a rejection of the format too.
C18_FormatNegotiationAnyCase == FormatNegotiation(ContainsFormatKeyAnyCase)

\* C18 witness: diarized_json rejected, json accepted, verbose_json returned
C18_Witness ==
  /\ remote.pc = "returned" /\ Len(remote.calls) = 3
  /\ remote.calls[1].response_format = "diarized_json" /\ remote.calls[1].outcome = "error"
  /\ remote.calls[2].response_format = "json" /\ remote.calls[2].outcome = "ok"
  /\ remote.calls[3].response_format = "verbose_json" /\ remote.calls[3].outcome = "ok"

\* C19: every utterance merge_and_label returns is labeled "I" or "D",
\* whatever the segments and the interviewer and participant counts are.
C19_LabelClosure ==
  labeler.pc = "returned" =>
    \A k \in 1..Len(labeler.labeled) : labeler.labeled[k].speaker \in {"I", "D"}

\* C19 witness: three raw speakers, one of them unnamed, and counts of 0:
\* three utterances come back, under both labels
C19_Witness ==
  /\ labeler.pc = "returned"
  /\ labeler.interviewer_count = 0 /\ labeler.participant_count = 0
  /\ Len(labeler.segments) = 3
  /\ {labeler.segments[k].speaker : k \in 1..3} = {"", "speaker_1", "speaker_2"}
  /\ Len(labeler.labeled) = 3
  /\ {labeler.labeled[k].speaker : k \in 1..3} = {"I", "D"}

\* a step of swap-roles on a job that has a stored transcript
SwapRolesStep ==
  /\ pc = "idle" /\ job.exists /\ job.transcript_json # NoRow
  /\ last'.op = "swap-roles" /\ last'.code = 0

\* C20: on a job with a stored transcript, swap_roles applied twice leaves
\* the stored transcript equal to the one before the first swap: the same
\* utterances in the same order, with the same times, texts and speakers.
C20_SwapInvolution ==
  [][SwapRolesStep =>
       /\ job'.transcript_json # job.transcript_json \/ get_transcript(job) = << >>
          \/ \A k \in 1..Len(get_transcript(job)) : get_transcript(job)[k].speaker \notin {"I", "D"}
       /\ toggle_swap_roles(job').transcript_json = job.transcript_json
       /\ get_transcript(toggle_swap_roles(job')) = get_transcript(job)]_vars

\* C20 witness: swap-roles has run on a transcript of both speakers
C20_Witness ==
  /\ pc = "idle" /\ last.op = "swap-roles" /\ last.code = 0
  /\ Len(get_transcript(job)) >= 2
  /\ {get_transcript(job)[k].speaker : k \in 1..Len(get_transcript(job))} = {"I", "D"}

\* the utterances merge_and_label returned, read back as segments whose
\* speaker ids are the emitted labels
ReadBack(labeled) ==
  [k \in 1..Len(labeled) |->
     Segment(labeled[k].startSec, labeled[k].endSec, labeled[k].speaker,
             labeled[k].text, labeled[k].confidence)]

\* C21 (as claimed): post-processing is idempotent: the output of
\* merge_and_label, put through merge_and_label again with the same counts,
\* comes back as the same list of utterances.
C21_PostprocessIdempotent ==
  labeler.pc = "returned" =>
    merge_and_label(ReadBack(labeler.labeled), labeler.interviewer_count,
                    labeler.participant_count) = labeler.labeled

\* the segments that survive dedupe_segments and filter_style_noise, in the
\* order map_to_interviewer_participant labels them
Surviving == SortSegments(labeler.filtered)

\* their raw speakers (an unnamed speaker counts as "speaker_0")
SurvivingSpeakers == { SpeakerOrDefault(Surviving[k].speaker) : k \in 1..Len(Surviving) }

\* the labels a raw speaker's utterances come back with
LabelsOf(sp) ==
  { labeler.labeled[k].speaker :
      k \in { n \in 1..Len(Surviving) : SpeakerOrDefault(Surviving[n].speaker) = sp } }

SpeakersLabeled(label) == { sp \in SurvivingSpeakers : LabelsOf(sp) = {label} }

\* slots = max(1, min(u - 1, round(u * I / (I + P)))), I and P clamped to >= 1
ClaimedSlots(u, interviewer_count, participant_count) ==
  LET I == Max(1, interviewer_count)
      P == Max(1, participant_count)
  IN Max(1, Min(u - 1, RoundHalfEven(u * I, I + P)))

\* C22: with u >= 2 raw speakers among the surviving segments, exactly
\* max(1, min(u - 1, round(u * I / (I + P)))) of them are labeled "I" and the
\* others "D", so both labels occur; a single raw speaker is labeled "I".
C22_InterviewerRatio ==
  labeler.pc = "returned" =>
    LET u == Cardinality(SurvivingSpeakers) IN
    /\ Len(labeler.labeled) = Len(Surviving)
    /\ \A sp \in SurvivingSpeakers : Cardinality(LabelsOf(sp)) = 1
    /\ u >= 2 =>
         /\ Cardinality(SpeakersLabeled("I")) =
              ClaimedSlots(u, labeler.interviewer_count, labeler.participant_count)
         /\ SpeakersLabeled("I") # {} /\ SpeakersLabeled("D") # {}
    /\ u = 1 => \A k \in 1..Len(labeler.labeled) : labeler.labeled[k].speaker = "I"

\* C22 witness: two raw speakers and three interviewers to one participant
\* (the share rounds to 2 and is capped at 1), one speaker under each label
C22_Witness ==
  /\ labeler.pc = "returned"
  /\ labeler.interviewer_count = 3 /\ labeler.participant_count = 1
  /\ Cardinality(SurvivingSpeakers) = 2
  /\ Cardinality(SpeakersLabeled("I")) = 1 /\ Cardinality(SpeakersLabeled("D")) = 1

\* score and first_start of a raw speaker among the surviving segments
ScoreOf(sp) == Score(SpeakerStats(Surviving, sp))

FirstStartOf(sp) == SpeakerStats(Surviving, sp).first_start

\* sp comes strictly before other in the order (-score, first_start)
RankedBefore(sp, other) ==
  \/ FracLess(ScoreOf(other), ScoreOf(sp))
  \/ /\ ~FracLess(ScoreOf(sp), ScoreOf(other))
     /\ FirstStartOf(sp) < FirstStartOf(other)

\* C23: the raw speakers labeled "I" are the first ones in the order
\* (-score, first_start): no speaker labeled "D" has a higher score than one
\* labeled "I", and of two speakers with equal scores, one labeled "I" and
\* one "D", the one labeled "I" starts first.
C23_InterviewerRanking ==
  labeler.pc = "returned" =>
    \A i \in SpeakersLabeled("I"), d \in SpeakersLabeled("D") :
       /\ ~FracLess(ScoreOf(i), ScoreOf(d))
       /\ RankedBefore(i, d)

\* C23 witness: a participant and an interviewer with equal scores (both
\* start after the start-bonus window), and a speaker who gets the start
\* bonus, asks the only question, and is labeled "I"
C23_Witness ==
  /\ labeler.pc = "returned"
  /\ \E i \in SpeakersLabeled("I"), d \in SpeakersLabeled("D") :
        /\ ~FracLess(ScoreOf(d), ScoreOf(i)) /\ ~FracLess(ScoreOf(i), ScoreOf(d))
        /\ FirstStartOf(i) < FirstStartOf(d)
  /\ \E i \in SpeakersLabeled("I"), d \in SpeakersLabeled("D") :
        /\ FracLess(ScoreOf(d), ScoreOf(i))
        /\ FirstStartOf(i) < START_BONUS_WINDOW
        /\ \E k \in 1..Len(Surviving) :
              SpeakerOrDefault(Surviving[k].speaker) = i /\ HasQuestion(Surviving[k].text)

WellFormedChars == { w.chars : w \in WellFormedLines }

\* 1-based number of the first line that is not well formed, 0 if there is none
FirstOffending(text) ==
  IF \A n \in 1..Len(text) : text[n] \in WellFormedChars THEN 0
  ELSE CHOOSE n \in 1..Len(text) :
         /\ text[n] \notin WellFormedChars
         /\ \A m \in 1..(n - 1) : text[m] \in WellFormedChars

\* the complaint about a line that is not well formed
Complaint(line) ==
  IF line \in BlankLines THEN "er tom"
  ELSE IF line \in UnprefixedLines THEN "mangler taler-prefix"
  ELSE "er tom efter taler-prefix"

\* C24: parse_editor_text fails at the first offending line n (counted from
\* 1): "Linje n er tom" for a blank line, "Linje n mangler taler-prefix" for
\* a line without I/D prefix, "Linje n er tom efter taler-prefix" for a
\* prefix with an empty body; a text without lines fails with "Ingen gyldige
\* ytringer fundet"; a failure returns no utterances.
C24_FirstOffendingLine ==
  editor.pc = "returned" =>
    LET n == FirstOffending(editor.text) IN
    /\ n # 0 =>
         /\ ~editor.parsed.ok
         /\ editor.parsed.error = <<"Linje", n, Complaint(editor.text[n])>>
    /\ editor.text = << >> =>
         /\ ~editor.parsed.ok
         /\ editor.parsed.error = <<"Ingen gyldige ytringer fundet">>
    /\ ~editor.parsed.ok => editor.parsed.value = << >>
    /\ (n = 0 /\ editor.text # << >>) => editor.parsed.ok

\* C24 witness: a well-formed line, then a blank line, then a line without
\* prefix: the complaint is about line 2
C24_Witness ==
  /\ editor.pc = "returned"
  /\ Len(editor.text) = 3
  /\ editor.text[1] \in WellFormedChars
  /\ editor.text[2] \in BlankLines
  /\ editor.text[3] \in UnprefixedLines
  /\ editor.parsed.error = <<"Linje", 2, "er tom">>

\* the well-formed line with these characters
Spelled(chars) == CHOOSE w \in WellFormedLines : w.chars = chars

\* C25: for a text of well-formed lines only, parse_editor_text returns one
\* utterance per line, in order and unmerged; utterance i (from 0) has the
\* upper-cased prefix letter as speaker, the trimmed body as text,
\* startSec = 3*i, endSec = 3*i + 1, and the confidence of
\* fallback_transcript[i] exactly when that entry exists and is not None.
C25_OneUtterancePerLine ==
  (/\ editor.pc = "returned" /\ editor.text # << >>
   /\ \A n \in 1..Len(editor.text) : editor.text[n] \in WellFormedChars) =>
    /\ editor.parsed.ok
    /\ Len(editor.parsed.value) = Len(editor.text)
    /\ \A n \in 1..Len(editor.text) :
         LET u == editor.parsed.value[n]
             fb == editor.fallback_transcript
             known == /\ n <= Len(fb)
                      /\ "confidence" \in DOMAIN fb[n]
                      /\ fb[n].confidence # NULL
         IN /\ u.speaker = Spelled(editor.text[n]).speaker
            /\ u.text = Spelled(editor.text[n]).body
            /\ u.startSec = 60 * (n - 1)
            /\ u.endSec = 60 * (n - 1) + 20
            /\ ("confidence" \in DOMAIN u) <=> known
            /\ known => u.confidence = fb[n].confidence

\* C25 witness: three well-formed lines, the first two by the same speaker,
\* parsed against a stored transcript whose third utterance alone has a
\* confidence
C25_Witness ==
  /\ editor.pc = "returned" /\ editor.parsed.ok
  /\ Len(editor.parsed.value) = 3
  /\ editor.parsed.value[1].speaker = editor.parsed.value[2].speaker
  /\ Len(editor.fallback_transcript) = 3
  /\ "confidence" \notin DOMAIN editor.parsed.value[1]
  /\ "confidence" \notin DOMAIN editor.parsed.value[2]
  /\ editor.parsed.value[3].confidence = 80

\* what C26 says of the plan create_chunks returned
PlanShape ==
  LET plan == planner.plan
      step == Max(MIN_STEP, planner.chunk_duration - planner.overlap)
  IN /\ plan # << >>
     /\ \A k \in 1..Len(plan) :
          /\ plan[k].idx = k - 1
          /\ plan[k].start_sec < plan[k].end_sec
          /\ plan[k].end_sec <= planner.duration
     /\ plan[1].start_sec = 0
     /\ \A k \in 1..(Len(plan) - 1) : plan[k + 1].start_sec = plan[k].start_sec + step
     /\ plan[Len(plan)].end_sec = planner.duration

\* C26 (as claimed): for every duration > 0, chunk_duration > 0 and
\* overlap >= 0, create_chunks returns chunks numbered 0, 1, 2, ... with
\* start_sec < end_sec <= duration, the first starting at 0, consecutive
\* starts step = max(1, chunk_duration - overlap) apart, and the last
\* ending at duration.
C26_ChunkPlanShape == planner.pc = "returned" => PlanShape

\* what C27 says of the list the globalizing loop built, with Agrees(u, t)
\* for "the stored time u is the global time t"
Globalized(Agrees(_, _)) ==
  LET segs == globalizer.segments
      out == globalizer.globalized
  IN /\ Len(out) = Len(segs)
     /\ \A k \in 1..Len(segs) :
          /\ Agrees(out[k].startSec, globalizer.chunk_start + segs[k].start_sec)
          /\ Agrees(out[k].endSec, globalizer.chunk_start + segs[k].end_sec)
          /\ out[k].speaker = segs[k].speaker
          /\ out[k].text = segs[k].text
          /\ out[k].confidence = segs[k].confidence

SameTime(u, t) == u = t

\* u is the whole number of milliseconds nearest to t
NearestMilli(u, t) ==
  /\ u % MILLI = 0
  /\ 2 * (u - t) <= MILLI /\ 2 * (t - u) <= MILLI

StoredAsGlobalized ==
  /\ \A i \in DOMAIN chunks :
        (chunks[i].status = "done" /\ source_exists) =>
           chunks[i].transcript_json =
             <<Globalize(chunks[i].start_sec, EngineSegments(i, chunks[i].engine))>>
  /\ \A i \in DOMAIN checkpoints :
        chunks[i].transcript_json = <<checkpoints[i].segments>>

\* the raw segments that have a text, and those of them with a known speaker
Produced == SelectSeq(fallback.raw_segments, LAMBDA raw : raw.text # << >>)

KnownSpeaker == SelectSeq(Produced, LAMBDA raw : raw.speaker \in {"SPEAKER_00", "SPEAKER_01"})

\* at least one segment, coverage >= 0.85, at least 2 distinct known speakers
GatePasses ==
  /\ Len(Produced) >= 1
  /\ 100 * Len(KnownSpeaker) >= 85 * Len(Produced)
  /\ Cardinality({ KnownSpeaker[k].speaker : k \in 1..Len(KnownSpeaker) }) >= 2

\* C28: transcribe_chunk_fallback returns segments only when the quality
\* gate passes (at least one segment, coverage >= 0.85, at least 2 distinct
\* known speakers); with segments produced and the gate failing it raises
\* LowSpeakerConfidence; without the credential it raises
\* FallbackUnavailable before any transcription.
C28_FallbackGate ==
  /\ fallback.pc = "returned" =>
       /\ GatePasses
       /\ Len(fallback.segments) = Len(Produced)
       /\ fallback.coverage >= COVERAGE_GATE
  /\ (fallback.pc # "off" /\ fallback.transcribed /\ ~GatePasses) =>
       /\ fallback.pc = "raised" /\ fallback.raised = "LowSpeakerConfidenceError"
  /\ (fallback.pc # "off" /\ fallback.transcribed /\ GatePasses) => fallback.pc = "returned"
  /\ (fallback.pc # "off" /\ ~fallback.hf_token) =>
       /\ fallback.pc = "raised" /\ fallback.raised = "FallbackUnavailableError"
       /\ ~fallback.transcribed

\* C28 witness: seven segments, six of them with a known speaker (coverage
\* 0.857), are returned
C28_Witness ==
  /\ fallback.pc = "returned"
  /\ Len(fallback.segments) = 7 /\ Len(KnownSpeaker) = 6
  /\ fallback.coverage = 85

\* C28, its consequence in the driver: a chunk stored as done with
\* engine = fallback has a confidence (the coverage) of at least 0.85
FallbackChunksPassedGate ==
  \A i \in DOMAIN chunks :
     (chunks[i].status = "done" /\ chunks[i].engine = "fallback") =>
        chunks[i].confidence >= COVERAGE_GATE

\* the jobs find-resumable may return
Incomplete ==
  { id \in JobIds : registry.rows[id].exists /\ registry.rows[id].status \in INCOMPLETE_STATUSES }

\* C29: latest_incomplete_job returns the most recently updated job whose
\* status is queued, preprocessing, transcribing_openai,
\* transcribing_fallback, merging or paused_retry_openai, and nothing when
\* there is none; a ready or failed job is never returned.
C29_LatestIncomplete ==
  registry.asked =>
    IF Incomplete = {}
    THEN registry.found = << >>
    ELSE /\ Len(registry.found) = 1
         /\ registry.found[1] \in Incomplete
         /\ \A other \in Incomplete :
               registry.rows[other].updated_at <= registry.rows[registry.found[1]].updated_at

\* C29, the part that holds: something is returned exactly when an
\* incomplete job exists, it is an incomplete job, and none was updated in
\* a later second
LatestIncompleteToTheSecond ==
  registry.asked =>
    IF Incomplete = {}
    THEN registry.found = << >>
    ELSE /\ Len(registry.found) = 1
         /\ registry.found[1] \in Incomplete
         /\ \A other \in Incomplete :
               datetime(registry.rows[other].updated_at)
                 <= datetime(registry.rows[registry.found[1]].updated_at)

\* the step of a non-resume run in which remove_ready_job_dirs is called
HousekeepingStep ==
  /\ registry.running # "" /\ registry.pc = "created" /\ ~registry.resume
  /\ registry'.pc = "preprocessing"

\* C30: a job directory is removed only in the start of a non-resume run
\* and only when its job is ready at that moment; a resume run removes
\* none, directories of non-ready jobs are never removed, and no job row,
\* chunk row or stored transcript is ever deleted.
C30_DeletionScope ==
  [][ /\ \A id \in registry.dirs \ registry'.dirs :
            /\ HousekeepingStep
            /\ registry.rows[id].exists /\ registry.rows[id].status = "ready"
      /\ \A id \in JobIds :
            /\ registry.rows[id].exists => registry'.rows[id].exists
            /\ registry.rows[id].has_chunks => registry'.rows[id].has_chunks
            /\ registry.rows[id].has_transcript => registry'.rows[id].has_transcript
    ]_vars

\* C30 witness: a non-resume run of b has removed the directory of the
\* ready job a, whose row, chunk rows and transcript are still there, and
\* has left the directory of b
C30_Witness ==
  /\ registry.running = "b" /\ ~registry.resume /\ registry.pc = "preprocessing"
  /\ registry.rows["a"].status = "ready"
  /\ registry.rows["a"].has_chunks /\ registry.rows["a"].has_transcript
  /\ registry.dirs = {"b"}

\* a run of update-transcript (one that leaves any trace)
UpdateTranscriptStep ==
  /\ pc = "idle" /\ last'.op = "update-transcript"
  /\ <<last', events', job'>> # <<last, events, job>>

\* the messages update-transcript can refuse with on job row j
Refusals(j) ==
  IF ~j.exists THEN { <<"Job findes ikke">> }
  ELSE { <<"Redigeret fil blev ikke fundet">> }
       \cup { parse_editor_text(t, get_transcript(j)).error :
                t \in { u \in EditorTexts : ~parse_editor_text(u, get_transcript(j)).ok } }

\* C31: update-transcript is all-or-nothing: when the text does not parse,
\* or the job or the input file is missing, the job row (transcript, status,
\* error_message) is unchanged, one error event carries the message and the
\* exit code is 1; only a text that parses replaces the transcript and sets
\* the job to ready.
C31_UpdateAllOrNothing ==
  [][UpdateTranscriptStep =>
       /\ chunks' = chunks
       /\ \/ /\ last'.code = 1
             /\ job' = job
             /\ Len(events') = 1 /\ events'[1].type = "error"
             /\ events'[1].message \in Refusals(job)
          \/ /\ last'.code = 0 /\ job.exists
             /\ events' = <<ResultEvent>>
             /\ \E t \in EditorTexts :
                  LET parsed == parse_editor_text(t, get_transcript(job)) IN
                  /\ parsed.ok
                  /\ job' = [job EXCEPT !.transcript_json = <<parsed.value>>,
                                        !.status = "ready", !.error_message = NoRow]
    ]_vars

\* C31 witness: a text whose second line has no speaker prefix was refused
\* on a job that was paused with a message
C31_Witness ==
  /\ pc = "idle" /\ last.op = "update-transcript" /\ last.code = 1
  /\ job.status = "paused_retry_openai" /\ job.error_message # NoRow
  /\ events[1].message[1] = "Linje" /\ events[1].message[2] = 2

\* C32: while a driver run of the job is in progress, no other process
\* changes its job row or its chunk rows: in a step that is not the
\* driver's (the driver stays where it is), job and chunks stay as they are.
C32_ExclusiveOwnership ==
  [][(pc # "idle" /\ pc' = pc /\ local' = local) => (job' = job /\ chunks' = chunks)]_vars

\* C32, in the spec's words: the job is never ready between the driver's
\* "preprocessing" and its own "ready"
NotReadyMidRun ==
  pc \in {"preprocess", "persist", "mark", "loop", "remote", "fallback", "pause",
          "checkpoint", "rename", "progress", "merge"} => job.status # "ready"

\* the driver takes up a chunk (lines 181-203); the driver leaves the loop
TakesUpChunk == pc = "loop" /\ pc' = "remote"

LeavesLoop == pc = "loop" /\ pc' = "merge"

\* C33: a chunk row that is done is never changed again, by the same run or
\* by a later resume, and no engine is called for it; a chunk that is not
\* done is taken up again by the next run that gets to it: the loop takes
\* the lowest row that is not done, and leaves only when every row is done.
C33_DoneIsAbsorbing ==
  [][ /\ \A i \in DOMAIN chunks :
           chunks[i].status = "done" => (i \in DOMAIN chunks' /\ chunks'[i] = chunks[i])
      /\ pc' \in {"remote", "fallback"} => chunks'[local'.chunk_rows[local'.i].idx].status # "done"
      /\ TakesUpChunk =>
           LET idx == local'.chunk_rows[local'.i].idx IN
           /\ chunks[idx].status \in {"queued", "transcribing_openai", "paused_retry_openai"}
           /\ \A j \in DOMAIN chunks : j < idx => chunks[j].status = "done"
           /\ chunks'[idx].status = "transcribing_openai"
      /\ LeavesLoop => \A i \in DOMAIN chunks : chunks[i].status = "done"
    ]_vars

\* C33 witness: a resume has skipped chunk 0, which an earlier run finished,
\* and has taken up chunk 1, which that run had left unfinished
C33_Witness ==
  /\ last.op = "resume" /\ pc = "remote"
  /\ DOMAIN chunks = {0, 1}
  /\ chunks[0].status = "done" /\ chunks[0].attempt_count = 1
  /\ local.chunk_rows[local.i].idx = 1 /\ chunks[1].attempt_count = 2

\* the step in which tmp.replace(path) puts a checkpoint file in place
RenameStep == pc = "rename" /\ pc' = "progress"

\* the completely written payload of chunk i, from the stored row
WholePayload(ch, i) ==
  [chunkIndex |-> i, engine |-> ch[i].engine, segments |-> ch[i].transcript_json[1]]

\* C34: checkpoints/chunk_<idx>.json is written at most once for each idx
\* over all runs, kills and resumes, and at every instant it is either
\* absent or holds a completely written payload: the payload goes to
\* path.tmp first and is renamed onto the path.
C34_CheckpointWriteOnce ==
  [][ /\ \A i \in DOMAIN checkpoints :
           i \in DOMAIN checkpoints' /\ checkpoints'[i] = checkpoints[i]
      /\ RenameStep =>
           /\ Row.idx \notin DOMAIN checkpoints
           /\ Row.idx \in DOMAIN tmp_checkpoints
           /\ checkpoints'[Row.idx] = tmp_checkpoints[Row.idx]
      /\ \A i \in DOMAIN checkpoints' :
           i \in DOMAIN chunks' /\ chunks'[i].status = "done"
             /\ checkpoints'[i] = WholePayload(chunks', i)
    ]_vars

\* C34 witness: the run was killed while it wrote the checkpoint of chunk 1:
\* the half-written file is the .tmp one, the checkpoint of chunk 0 is whole
C34_Witness ==
  /\ pc = "idle" /\ last.how = "killed"
  /\ DOMAIN checkpoints = {0} /\ checkpoints[0] = WholePayload(chunks, 0)
  /\ 1 \in DOMAIN tmp_checkpoints /\ tmp_checkpoints[1] = TRUNCATED

\* C34, with the housekeeping of other runs, the other commands and a
\* removed source between the runs: a checkpoint is put in place only for
\* the chunk this run has just stored as done, over no file, and what is there is whole
CheckpointsWholeOps ==
  [][ /\ RenameStep =>
           /\ Row.idx \notin DOMAIN checkpoints
           /\ Row.status # "done" /\ chunks[Row.idx].status = "done"
      /\ \A i \in DOMAIN checkpoints' : checkpoints'[i] = WholePayload(chunks', i)
    ]_vars

\* time the text segment t and the diarized segment d share; twice the
\* distance of their midpoints
Shared(t, d) ==
  LET lo == IF t.start_sec > d.start_sec THEN t.start_sec ELSE d.start_sec
      hi == IF t.end_sec < d.end_sec THEN t.end_sec ELSE d.end_sec
  IN IF hi > lo THEN hi - lo ELSE 0

Apart(t, d) ==
  LET x == (t.start_sec + t.end_sec) - (d.start_sec + d.end_sec)
  IN IF x < 0 THEN 0 - x ELSE x

\* the diarized segment the text segment t is to take its speaker from
ChosenFor(t) ==
  LET D == assigner.diarized_segments
      overlapping == { j \in 1..Len(D) : Shared(t, D[j]) > 0 }
      largest == { j \in overlapping : \A o \in overlapping : Shared(t, D[o]) <= Shared(t, D[j]) }
      nearest == { j \in 1..Len(D) : \A o \in 1..Len(D) : Apart(t, D[j]) <= Apart(t, D[o]) }
      among == IF overlapping # {} THEN largest ELSE nearest
  IN CHOOSE j \in among : \A o \in among : j <= o

\* every text segment has its output segment, with the speaker of its
\* diarized segment and its own times, text and confidence
EachTextSegmentAssigned ==
  /\ Len(assigner.merged) = Len(assigner.whisper_segments)
  /\ \A k \in 1..Len(assigner.whisper_segments) :
       LET t == assigner.whisper_segments[k]
           m == assigner.merged[k]
       IN /\ m.start_sec = t.start_sec /\ m.end_sec = t.end_sec
          /\ m.text = t.text /\ m.confidence = t.confidence
          /\ m.speaker = IF assigner.diarized_segments = << >> THEN "speaker_0"
                         ELSE assigner.diarized_segments[ChosenFor(t)].speaker

\* C35: each text segment gets the speaker of the diarized segment with the
\* largest positive overlap (the earliest on ties), else of the one with the
\* nearest midpoint, else "speaker_0"; the output has exactly one segment
\* per text segment, times, text and confidence unchanged.
C35_SpeakerAssignment ==
  assigner.pc = "merged" => EachTextSegmentAssigned

\* C35 as it holds: the above whenever there is a text segment; with no text
\* segment the output is the list of diarized segments
C35_SpeakerAssignmentOfTexts ==
  assigner.pc = "merged" =>
    IF assigner.whisper_segments = << >>
    THEN assigner.merged = assigner.diarized_segments
    ELSE EachTextSegmentAssigned

\* C35 witness: two text segments; the first overlaps speaker_B and then
\* speaker_A by the same amount and takes speaker_B, the second overlaps
\* nothing and takes speaker_D, the nearer of the two by midpoint
C35_Witness ==
  /\ assigner.pc = "merged"
  /\ Len(assigner.merged) = 2
  /\ assigner.merged[1].start_sec = 10 /\ assigner.merged[2].start_sec = 40
  /\ Len(assigner.diarized_segments) = 3
  /\ assigner.diarized_segments[1].speaker = "speaker_B"
  /\ assigner.diarized_segments[2].speaker = "speaker_A"
  /\ assigner.diarized_segments[3].speaker = "speaker_D"
  /\ assigner.merged[1].speaker = "speaker_B" /\ assigner.merged[2].speaker = "speaker_D"

\* neighbours k, k+1 of a segment list that step 4 is to merge
MergeableNeighbours(list, k) ==
  /\ list[k].speaker = list[k + 1].speaker
  /\ list[k + 1].start_sec - list[k].end_sec <= SPEAKER_RUN_MERGE_MAX_GAP_SEC

\* C36: for every input, also one that leaves only one or two segments
\* after the noise filter, the list the post-processor produces before
\* labelling has no two consecutive segments of the same raw speaker with a
\* gap of at most 10 s.
C36_RunsMerged ==
  labeler.pc = "returned" =>
    \A k \in 1..(Len(labeler.filtered) - 1) : ~MergeableNeighbours(labeler.filtered, k)

\* C36, the part that holds: the same for every list of three or more
\* segments left by the noise filter
RunsMergedFromThree ==
  (labeler.pc = "returned"
     /\ Len(NoiseLoop(SortSegments(dedupe_segments(labeler.segments)))) >= 3) =>
    \A k \in 1..(Len(labeler.filtered) - 1) : ~MergeableNeighbours(labeler.filtered, k)

\* C37: a chunk row is created queued with attempt_count 0; each time the
\* driver takes the chunk up, in any run, attempt_count goes up by exactly
\* one before an engine is called; so a queued chunk has attempt_count 0,
\* any other chunk has attempt_count >= 1, and attempt_count never goes down.
C37_AttemptCount ==
  [][ /\ \A i \in DOMAIN chunks' :
           IF i \in DOMAIN chunks
           THEN /\ chunks'[i].attempt_count >= chunks[i].attempt_count
                /\ chunks'[i].attempt_count # chunks[i].attempt_count =>
                     /\ TakesUpChunk /\ local'.chunk_rows[local'.i].idx = i
                     /\ chunks'[i].attempt_count = chunks[i].attempt_count + 1
           ELSE chunks'[i].status = "queued" /\ chunks'[i].attempt_count = 0
      /\ TakesUpChunk =>
           LET idx == local'.chunk_rows[local'.i].idx IN
           chunks'[idx].attempt_count = chunks[idx].attempt_count + 1
      /\ \A i \in DOMAIN chunks' :
           /\ chunks'[i].status = "queued" => chunks'[i].attempt_count = 0
           /\ chunks'[i].status # "queued" => chunks'[i].attempt_count >= 1
    ]_vars

\* C37 witness: chunk 0 was taken up twice (a killed run and a resume) and
\* is done; chunk 1 has not been taken up
C37_Witness ==
  /\ DOMAIN chunks = {0, 1}
  /\ chunks[0].status = "done" /\ chunks[0].attempt_count = 2
  /\ chunks[1].status = "queued" /\ chunks[1].attempt_count = 0

\* C38: in every reachable state a ready job has at least one chunk, all its
\* chunks are done and chunks_done = chunks_total, whichever operation
\* (driver run, resume, swap-roles, update-transcript) wrote the job row last.
C38_ReadyMeansAllDone ==
  (job.exists /\ job.status = "ready") =>
    /\ DOMAIN chunks # {}
    /\ \A i \in DOMAIN chunks : chunks[i].status = "done"
    /\ job.chunks_done = job.chunks_total

\* the driver emits a progress or paused event in this step
EmitsProgress ==
  /\ Len(events') = Len(events) + 1
  /\ events'[Len(events')].type \in {"progress", "paused"}

\* C39: the status of every progress and paused event the driver emits is
\* the job's persisted status at that moment, and its chunksDone and
\* chunksTotal are the persisted chunks_done and chunks_total.
C39_EventsMatchStore ==
  [][EmitsProgress =>
       LET e == events'[Len(events')] IN
       /\ e.status = job'.status
       /\ e.chunksDone = job'.chunks_done
       /\ e.chunksTotal = job'.chunks_total]_vars

\* C39, the part that holds: the status matches for every event but the
\* "transcribing_fallback" one, and the counts match for every event but
\* the "preprocessing" one
EventsMatchStoreMostly ==
  [][EmitsProgress =>
       LET e == events'[Len(events')] IN
       /\ e.status # "transcribing_fallback" => e.status = job'.status
       /\ e.status # "preprocessing" =>
            (e.chunksDone = job'.chunks_done /\ e.chunksTotal = job'.chunks_total)]_vars

\* C40: in every committed state of the store a chunk row has a stored
\* transcript if and only if it is done: the upserts that mark a chunk
\* queued, transcribing_openai or paused_retry_openai store none, the upsert
\* that marks it done stores the globalized list even when it is empty.
C40_TranscriptIffDone ==
  \A i \in DOMAIN chunks :
     /\ (chunks[i].transcript_json # NoRow) <=> (chunks[i].status = "done")
     /\ chunks[i].status = "done" =>
          chunks[i].transcript_json = <<Globalize(chunks[i].start_sec,
                                                  EngineSegments(i, chunks[i].engine))>>

\* C40 witness: chunk 0 is done with segments, chunk 1, in which the engine
\* heard nothing, is done with an empty list, not with NULL
C40_Witness ==
  /\ DOMAIN chunks = {0, 1}
  /\ chunks[0].status = "done" /\ chunks[0].transcript_json # << << >> >>
  /\ chunks[1].status = "done" /\ chunks[1].transcript_json = << << >> >>

====
